---- MODULE Spec2Model ----
(***************************************************************************)
(* OmnisecAI monitoring service: the report / score aggregation pipeline   *)
(* (ThreatAnalyzer, DataProcessor, MetricsCollector) and the request layer *)
(* of main.py that serves it.                                              *)
(*                                                                         *)
(* Python values are modelled as follows.  A dict is a record; a key that  *)
(* is absent from the dict is absent from the record's DOMAIN.  A list is  *)
(* a sequence.  An instant is a number of hours since datetime.min, a      *)
(* timedelta a number of hours.  A call either returns a value, Ok(v), or  *)
(* raises, Raise(exc, msg).  A float is kept exact: a rate is a reduced    *)
(* fraction [num, den], a value rounded to two places is its number of     *)
(* hundredths.                                                             *)
(***************************************************************************)
EXTENDS Integers, Sequences, FiniteSets, TLC

VARIABLES
  threats,       \* threat_detection_logs documents a find() returns
  interactions,  \* model_interactions documents a find() returns
  store,         \* what the PostgreSQL and MongoDB aggregate queries return
  now,           \* datetime.utcnow()
  report_arg,    \* a report dict handed to the DataProcessor scoring helpers
  result,        \* outcome of the last scoring / rate function applied
  reports,       \* report_type -> outcome of the last generate_security_report
  phase,         \* the service: "created", "running", or "failed" at startup
  db,            \* the process-wide handles of config/database.py
  handles,       \* component -> the store handles the component object holds
  last,          \* the last request served: arguments, core outcome, response
  inflight       \* organization or caller -> its request or call in progress

vars ==
  <<threats, interactions, store, now, report_arg, result, reports,
    phase, db, handles, last, inflight>>

----------------------------------------------------------------------------
(* Bounds of the model.                                                    *)

MaxThreats == 2

MaxRows == 2

MaxModels == 2
\* number of threat types in the reports with many types
MaxTypes == 6
\* number of coroutines that call the connection getters
MaxCallers == 2
\* length of the threat lists whose hours are bucketed
MaxStamped == 5

----------------------------------------------------------------------------
(* Python plumbing.                                                        *)

Ok(v) == [ok |-> TRUE, value |-> v]

Raise(exc, msg) == [ok |-> FALSE, exc |-> exc, msg |-> msg]

NotApplied == [fn |-> "none"]

NoReport == [report_type |-> "none"]

\* dict.get(key, default)
Get(d, key, default) == IF key \in DOMAIN d THEN d[key] ELSE default

\* sum(nums), nums a sequence of numbers
Sum(nums) ==
  LET partial[i \in 0..Len(nums)] == IF i = 0 THEN 0 ELSE partial[i - 1] + nums[i]
  IN  partial[Len(nums)]

Max(a, b) == IF a >= b THEN a ELSE b

Min(a, b) == IF a <= b THEN a ELSE b

Repeat(x, n) == [i \in 1..n |-> x]

RECURSIVE SeqsUpTo(_, _)
\* the lists of at most n elements of S
SeqsUpTo(S, n) ==
  IF n = 0 THEN {<<>>}
  ELSE LET shorter == SeqsUpTo(S, n - 1)
       IN  shorter \cup {Append(s, x) : s \in shorter, x \in S}

None == "None"

\* main.py's component objects and database.py's globals, as the import leaves them
NoHandles ==
  [threat_analyzer |-> [pg_pool |-> None, mongo_db |-> None],
   metrics_collector |-> [pg_pool |-> None, mongo_db |-> None, redis_client |-> None],
   data_processor |-> [pg_pool |-> None, mongo_db |-> None]]

NoConnections ==
  [pg_pool |-> None, mongo_client |-> None, mongo_db |-> None, redis_client |-> None]

NoRequest == [endpoint |-> "none"]

\* the organizations with requests in progress: one, and another
Tenants == {"org-1", "org-2"}

Idle == [op |-> "idle"]

Constructed ==
  /\ phase = "created"
  /\ db = NoConnections
  /\ handles = NoHandles
  /\ last = NoRequest
  /\ inflight = [organization_id \in Tenants |-> Idle]

\* round-half-even of num / den to an integer (num >= 0, den > 0): Python's round()
RoundHalfEven(num, den) ==
  LET q == num \div den
      r == num % den
  IN  IF 2 * r > den THEN q + 1
      ELSE IF 2 * r < den THEN q
      ELSE IF q % 2 = 0 THEN q ELSE q + 1

RECURSIVE Gcd(_, _)
Gcd(a, b) == IF b = 0 THEN a ELSE Gcd(b, a % b)

\* the float 0.0 (and the int 0 where a float is expected)
Zero == [num |-> 0, den |-> 1]

\* num / den, Python's true division (num >= 0): the quotient in lowest terms
TrueDiv(num, den) ==
  IF den = 0 THEN Raise("ZeroDivisionError", <<"division by zero">>)
  ELSE IF num = 0 THEN Ok(Zero)
  ELSE Ok([num |-> num \div Gcd(num, den), den |-> den \div Gcd(num, den)])

\* round(q * 100, 2), in hundredths, of a quotient q = [num, den]
Percent2(q) == RoundHalfEven(q.num * 10000, q.den)

\* round(q, 2), in hundredths
Round2(q) == RoundHalfEven(q.num * 100, q.den)

----------------------------------------------------------------------------
(* Instants and timedeltas, in hours.                                      *)

DatetimeMin == 0

\* a reading of the clock: 739,000 days after datetime.min
ClockReading == 739000 * 24

\* instant - timedelta(days=days): timedelta takes at most 999,999,999 days either
\* way, and the difference lies between datetime.min and datetime.max (the last
\* hour of day 3,652,058)
DatetimeMinusDays(instant, days) ==
  IF days < -999999999 \/ days > 999999999
  THEN Raise("OverflowError", <<"days; must have magnitude <= 999999999">>)
  ELSE IF (instant \div 24) - days < 0 \/ (instant \div 24) - days > 3652058
  THEN Raise("OverflowError", <<"date value out of range">>)
  ELSE Ok(instant - days * 24)

\* getattr(timedelta, name): a timedelta has days, seconds and microseconds
TimedeltaAttr(delta, name) ==
  CASE name = "days" -> Ok(delta \div 24)
    [] name = "seconds" -> Ok((delta % 24) * 3600)
    [] name = "microseconds" -> Ok(0)
    [] OTHER -> Raise("AttributeError", <<"'datetime.timedelta' object has no attribute", name>>)

----------------------------------------------------------------------------
(* ThreatAnalyzer: per-model scoring.                                      *)

SeverityPenalty(sev) ==
  CASE sev = "critical" -> 20
    [] sev = "high" -> 15
    [] sev = "medium" -> 10
    [] sev = "low" -> 5
    [] OTHER -> 5

ThreatPenalty(t) == SeverityPenalty(Get(t, "severity", "low"))

CalculateModelSecurityScoreUnclamped(ts, ins) ==
  LET base_score == 100
      threat_penalty == Len(ts) * 5
      severity_penalty == Sum([i \in DOMAIN ts |-> ThreatPenalty(ts[i])])
      interaction_penalty == IF Len(ins) > 1000 THEN 10 ELSE 0
  IN  base_score - threat_penalty - severity_penalty - interaction_penalty

\* a variant whose interaction penalty starts at 1000 interactions
CalculateModelSecurityScoreFromThousand(ts, ins) ==
  LET base_score == 100
      threat_penalty == Len(ts) * 5
      severity_penalty == Sum([i \in DOMAIN ts |-> ThreatPenalty(ts[i])])
      interaction_penalty == IF Len(ins) >= 1000 THEN 10 ELSE 0
  IN  Max(0, base_score - threat_penalty - severity_penalty - interaction_penalty)

CalculateModelSecurityScore(ts, ins) ==
  LET base_score == 100
      threat_penalty == Len(ts) * 5
      severity_penalty == Sum([i \in DOMAIN ts |-> ThreatPenalty(ts[i])])
      interaction_penalty == IF Len(ins) > 1000 THEN 10 ELSE 0
  IN  Max(0, base_score - threat_penalty - severity_penalty - interaction_penalty)

\* t.get('false_positive', False)
FalsePositive(t) == Get(t, "false_positive", FALSE)

\* a variant that counts as detected only the records whose flag is set to False
CalculateDetectionRateExplicit(ts) ==
  IF ts = <<>> THEN Ok(Zero)
  ELSE TrueDiv(Cardinality({i \in DOMAIN ts : "false_positive" \in DOMAIN ts[i]
                                               /\ ~ts[i].false_positive}), Len(ts))

CalculateDetectionRate(ts) ==
  IF ts = <<>> THEN Ok(Zero)
  ELSE TrueDiv(Cardinality({i \in DOMAIN ts : ~FalsePositive(ts[i])}), Len(ts))

CalculateFalsePositiveRate(ts) ==
  IF ts = <<>> THEN Ok(Zero)
  ELSE TrueDiv(Cardinality({i \in DOMAIN ts : FalsePositive(ts[i])}), Len(ts))

\* len([t for t in threats if (utcnow() - t.get('timestamp', datetime.min)).<attr> <= limit]):
\* the comprehension raises on the first element whose attribute access raises
CountWithin(ts, clock, attr, limit) ==
  LET Delta(t) == clock - Get(t, "timestamp", DatetimeMin)
      Read(t) == TimedeltaAttr(Delta(t), attr)
      raising == {i \in DOMAIN ts : ~Read(ts[i]).ok}
  IN  IF raising # {}
      THEN Read(ts[CHOOSE i \in raising : \A j \in raising : i <= j])
      ELSE Ok(Cardinality({i \in DOMAIN ts : Read(ts[i]).value <= limit}))

CalculateThreatExposure(ts, clock) ==
  LET last_24h == CountWithin(ts, clock, "hours", 24)
      last_7d == CountWithin(ts, clock, "days", 7)
      last_30d == CountWithin(ts, clock, "days", 30)
  IN  IF ~last_24h.ok THEN last_24h
      ELSE IF ~last_7d.ok THEN last_7d
      ELSE IF ~last_30d.ok THEN last_30d
      ELSE Ok([total |-> Len(ts), last_24h |-> last_24h.value,
               last_7d |-> last_7d.value, last_30d |-> last_30d.value])

GetModelTypeRisks(model_type) ==
  CASE model_type = "tensorflow" -> <<"adversarial_attacks", "model_extraction">>
    [] model_type = "pytorch" -> <<"gradient_attacks", "inference_attacks">>
    [] model_type = "onnx" -> <<"format_vulnerabilities", "serialization_attacks">>
    [] model_type = "huggingface" -> <<"prompt_injection", "data_extraction">>
    [] OTHER -> <<"unknown_risks">>

AssessVulnerabilities(model, ts, clock) ==
  [model_type_risks |-> GetModelTypeRisks(model.type),
   threat_exposure |-> Len(ts),
   critical_vulnerabilities |->
     Cardinality({i \in DOMAIN ts : Get(ts[i], "severity", None) = "critical"}),
   recent_attacks |-> CountWithin(ts, clock, "days", 7).value]

----------------------------------------------------------------------------
(* DataProcessor: report generation.                                       *)

\* d[key] = value on a dict d
SetItem(d, key, value) ==
  [k \in DOMAIN d \cup {key} |-> IF k = key THEN value ELSE d[k]]

\* dict.update(other)
Update(d, other) ==
  [k \in DOMAIN d \cup DOMAIN other |-> IF k \in DOMAIN other THEN other[k] ELSE d[k]]

EmptyDict == [k \in {} |-> 0]

\* one pass of the loop over the grouped threat rows: threat_summary is the
\* insertion-ordered list of (threat_type, data) items
AddThreatRow(threat_summary, threat) ==
  LET known == \E j \in DOMAIN threat_summary : threat_summary[j][1] = threat.threat_type
      items == IF known THEN threat_summary
               ELSE Append(threat_summary,
                           <<threat.threat_type,
                             [total |-> 0, resolved |-> 0, by_severity |-> EmptyDict]>>)
      at == CHOOSE j \in DOMAIN items : items[j][1] = threat.threat_type
      data == items[at][2]
  IN  [items EXCEPT ![at] =
         <<threat.threat_type,
           [total |-> data.total + threat.count,
            resolved |-> data.resolved + threat.resolved,
            by_severity |-> SetItem(data.by_severity, threat.severity, threat.count)]>>]

ThreatSummary(rows) ==
  LET acc[i \in 0..Len(rows)] == IF i = 0 THEN <<>> ELSE AddThreatRow(acc[i - 1], rows[i])
  IN  acc[Len(rows)]

\* a variant that puts the later of two items of equal key first
SortedDescLaterFirst(items, keys) ==
  LET Before(i, j) == keys[i] > keys[j] \/ (keys[i] = keys[j] /\ i > j)
      Rank(j) == 1 + Cardinality({i \in DOMAIN items : Before(i, j)})
  IN  [k \in DOMAIN items |-> items[CHOOSE j \in DOMAIN items : Rank(j) = k]]

\* sorted(items, key=..., reverse=True), keys[i] the key of items[i]: the sort is
\* stable, and reverse=True keeps the order of items of equal key
SortedDesc(items, keys) ==
  LET Before(i, j) == keys[i] > keys[j] \/ (keys[i] = keys[j] /\ i < j)
      Rank(j) == 1 + Cardinality({i \in DOMAIN items : Before(i, j)})
  IN  [k \in DOMAIN items |-> items[CHOOSE j \in DOMAIN items : Rank(j) = k]]

\* sorted(threat_summary.items(), key=lambda x: x[1]['total'], reverse=True)
SortedByTotalDesc(items) == SortedDesc(items, [i \in DOMAIN items |-> items[i][2].total])

Prefix(seq, n) == SubSeq(seq, 1, Min(n, Len(seq)))

\* a variant that appends the event-volume rule before the model rule
GenerateReportRecommendationsEventsFirst(threat_summary, models, security_events) ==
  LET variety ==
        IF Len(threat_summary) > 5
        THEN <<<<"High variety of threat types detected - consider implementing comprehensive threat monitoring">>>>
        ELSE <<>>
      low == SelectSeq(threat_summary,
                       LAMBDA item : 2 * item[2].resolved < Max(item[2].total, 1))
      per_type == [i \in DOMAIN low |->
                     <<"Low resolution rate for", low[i][1], "threats - review response procedures">>]
      model_rule ==
        IF 10 * models.active_models < 8 * models.total_models
        THEN <<<<"Consider activating more models or removing inactive ones to improve security posture">>>>
        ELSE <<>>
      activity ==
        IF security_events > 1000
        THEN <<<<"High security event volume - consider implementing automated filtering">>>>
        ELSE <<>>
  IN  variety \o per_type \o activity \o model_rule

GenerateReportRecommendations(threat_summary, models, security_events) ==
  LET variety ==
        IF Len(threat_summary) > 5
        THEN <<<<"High variety of threat types detected - consider implementing comprehensive threat monitoring">>>>
        ELSE <<>>
      low == SelectSeq(threat_summary,
                       LAMBDA item : 2 * item[2].resolved < Max(item[2].total, 1))
      per_type == [i \in DOMAIN low |->
                     <<"Low resolution rate for", low[i][1], "threats - review response procedures">>]
      model_rule ==
        IF 10 * models.active_models < 8 * models.total_models
        THEN <<<<"Consider activating more models or removing inactive ones to improve security posture">>>>
        ELSE <<>>
      activity ==
        IF security_events > 1000
        THEN <<<<"High security event volume - consider implementing automated filtering">>>>
        ELSE <<>>
  IN  variety \o per_type \o model_rule \o activity

\* the external calls of _generate_summary_report, in the order it issues them
SummaryCalls ==
  <<<<"pg_pool", "acquire">>, <<"security_threats", "fetch">>, <<"ai_models", "fetchrow">>,
    <<"audit_logs", "fetchrow">>, <<"security_events", "count_documents">>,
    <<"threat_detection_logs", "count_documents">>>>

StoreError(call) == Raise("StoreError", call)

NoneTypeError(attr) == Raise("AttributeError", <<"'NoneType' object has no attribute", attr>>)

\* (resolved_threats / total_threats * 100) if total_threats > 0 else 0, before the
\* factor 100
ResolutionRateUnguarded(resolved_threats, total_threats) ==
  TrueDiv(resolved_threats, total_threats)

ResolutionRate(resolved_threats, total_threats) ==
  IF total_threats > 0 THEN TrueDiv(resolved_threats, total_threats) ELSE Ok(Zero)

\* total_threats / max(models['active_models'], 1)
ThreatsPerModel(total_threats, models) ==
  TrueDiv(total_threats, Max(models.active_models, 1))

\* active_models / max(total_models, 1)
ModelCoverage(model_security) ==
  TrueDiv(model_security.active_models, Max(model_security.total_models, 1))

\* the report dict _generate_summary_report builds from the query results
SummaryReportOf(organization_id, start_date, end_date, clock, data) ==
  LET threat_rows == data.security_threats
      models == data.ai_models
      threat_summary == ThreatSummary(threat_rows)
      total_threats == Sum([i \in DOMAIN threat_rows |-> threat_rows[i].count])
      resolved_threats == Sum([i \in DOMAIN threat_rows |-> threat_rows[i].resolved])
      rate == ResolutionRate(resolved_threats, total_threats)
      per_model == ThreatsPerModel(total_threats, models)
  IN  IF ~rate.ok THEN rate
      ELSE IF ~per_model.ok THEN per_model
      ELSE Ok([report_type |-> "summary",
               organization_id |-> organization_id,
               period |-> [start_date |-> start_date, end_date |-> end_date,
                           days |-> (end_date - start_date) \div 24],
               executive_summary |->
                 [total_threats |-> total_threats,
                  resolved_threats |-> resolved_threats,
                  resolution_rate_percent |-> Percent2(rate.value),
                  security_events |-> data.security_events,
                  threat_detections |-> data.threat_detection_logs,
                  active_models |-> models.active_models,
                  active_users |-> data.audit_logs.active_users],
               threat_analysis |->
                 [by_type |-> threat_summary,
                  top_threats |-> Prefix(SortedByTotalDesc(threat_summary), 5)],
               model_security |->
                 [total_models |-> models.total_models,
                  active_models |-> models.active_models,
                  threats_per_model |-> Round2(per_model.value)],
               recommendations |->
                 GenerateReportRecommendations(threat_summary, models, data.security_events),
               generated_at |-> clock])

\* _generate_summary_report: self holds the store handles, fail is the external
\* call that raises (0: none does); returns the outcome and the calls attempted
GenerateSummaryReport(self, organization_id, start_date, end_date, clock, data, fail) ==
  IF self.pg_pool = None
  THEN [out |-> NoneTypeError("acquire"), calls |-> <<>>]
  ELSE IF fail \in 1..4
  THEN [out |-> StoreError(SummaryCalls[fail]), calls |-> Prefix(SummaryCalls, fail)]
  ELSE IF self.mongo_db = None
  THEN [out |-> NoneTypeError("security_events"), calls |-> Prefix(SummaryCalls, 4)]
  ELSE IF fail \in 5..6
  THEN [out |-> StoreError(SummaryCalls[fail]), calls |-> Prefix(SummaryCalls, fail)]
  ELSE [out |-> SummaryReportOf(organization_id, start_date, end_date, clock, data),
        calls |-> SummaryCalls]

AnalyzeTemporalPatterns == [analysis |-> "temporal patterns analysis"]

AnalyzeModelInteractions == [analysis |-> "model interactions analysis"]

AnalyzeUserBehavior == [analysis |-> "user behavior analysis"]

AnalyzeAttackVectors == [analysis |-> "attack vectors analysis"]

\* a detailed report that builds its own executive_summary
GenerateDetailedReportOwnSummary(self, organization_id, start_date, end_date, clock, data, fail) ==
  LET summary_report ==
        GenerateSummaryReport(self, organization_id, start_date, end_date, clock, data, fail)
  IN  IF ~summary_report.out.ok THEN summary_report
      ELSE [out |-> Ok(Update(summary_report.out.value,
                              [report_type |-> "detailed",
                               executive_summary |->
                                 [total_threats |->
                                    summary_report.out.value.executive_summary.total_threats],
                               detailed_analysis |->
                                 [temporal_patterns |-> AnalyzeTemporalPatterns,
                                  model_interactions |-> AnalyzeModelInteractions,
                                  user_behavior |-> AnalyzeUserBehavior,
                                  attack_vectors |-> AnalyzeAttackVectors]])),
            calls |-> summary_report.calls]

\* a detailed report that drops the attack_vectors analysis
GenerateDetailedReportThreeSections(self, organization_id, start_date, end_date, clock, data, fail) ==
  LET summary_report ==
        GenerateSummaryReport(self, organization_id, start_date, end_date, clock, data, fail)
  IN  IF ~summary_report.out.ok THEN summary_report
      ELSE [out |-> Ok(Update(summary_report.out.value,
                              [report_type |-> "detailed",
                               detailed_analysis |->
                                 [temporal_patterns |-> AnalyzeTemporalPatterns,
                                  model_interactions |-> AnalyzeModelInteractions,
                                  user_behavior |-> AnalyzeUserBehavior]])),
            calls |-> summary_report.calls]

GenerateDetailedReport(self, organization_id, start_date, end_date, clock, data, fail) ==
  LET summary_report ==
        GenerateSummaryReport(self, organization_id, start_date, end_date, clock, data, fail)
  IN  IF ~summary_report.out.ok THEN summary_report
      ELSE [out |-> Ok(Update(summary_report.out.value,
                              [report_type |-> "detailed",
                               detailed_analysis |->
                                 [temporal_patterns |-> AnalyzeTemporalPatterns,
                                  model_interactions |-> AnalyzeModelInteractions,
                                  user_behavior |-> AnalyzeUserBehavior,
                                  attack_vectors |-> AnalyzeAttackVectors]])),
            calls |-> summary_report.calls]


\* a posture score whose threat volume penalty is not capped at 30
CalculateSecurityPostureScoreUncapped(report) ==
  LET base_score == 100
      resolution_rate == report.executive_summary.resolution_rate_percent
      threat_volume_penalty == report.executive_summary.total_threats * 2
      m == Max(report.model_security.total_models, 1)
      active == report.model_security.active_models
      numerator == base_score * 200 * m
                   - (10000 - resolution_rate) * m
                   - threat_volume_penalty * 200 * m
                   - (m - active) * 20 * 200
  IN  IF numerator <= 0 THEN 0 ELSE numerator \div (200 * m)

\* _calculate_security_posture_score, exactly: with rr the resolution rate in
\* hundredths of a percent and m = max(total_models, 1), the float
\*   100 - (100 - rr/100) * 0.5 - min(total_threats * 2, 30) - (1 - active/m) * 20
\* is the quotient numerator / (200 * m)
CalculateSecurityPostureScore(report) ==
  LET base_score == 100
      resolution_rate == report.executive_summary.resolution_rate_percent
      threat_volume_penalty == Min(report.executive_summary.total_threats * 2, 30)
      m == Max(report.model_security.total_models, 1)
      active == report.model_security.active_models
      numerator == base_score * 200 * m
                   - (10000 - resolution_rate) * m
                   - threat_volume_penalty * 200 * m
                   - (m - active) * 20 * 200
  IN  IF numerator <= 0 THEN 0 ELSE numerator \div (200 * m)

\* a variant whose thresholds are inclusive
CalculateThreatTrendInclusive(report) ==
  LET total_threats == report.executive_summary.total_threats
  IN  IF total_threats >= 50 THEN "Increasing"
      ELSE IF total_threats >= 20 THEN "Stable"
      ELSE "Decreasing"

CalculateThreatTrend(report) ==
  LET total_threats == report.executive_summary.total_threats
  IN  IF total_threats > 50 THEN "Increasing"
      ELSE IF total_threats > 20 THEN "Stable"
      ELSE "Decreasing"

\* a variant that grades the score before the penalty for inactive models
AssessRiskLevelOfThreats(report) ==
  LET score == CalculateSecurityPostureScore(
                 [report EXCEPT !.model_security.active_models =
                                  Max(report.model_security.total_models, 1)])
  IN  IF score >= 80 THEN "Low"
      ELSE IF score >= 60 THEN "Medium"
      ELSE IF score >= 40 THEN "High"
      ELSE "Critical"

AssessRiskLevel(report) ==
  LET score == CalculateSecurityPostureScore(report)
  IN  IF score >= 80 THEN "Low"
      ELSE IF score >= 60 THEN "Medium"
      ELSE IF score >= 40 THEN "High"
      ELSE "Critical"

\* a variant that looks for critical threats in every type of the report
IdentifyCriticalIssuesOfAllTypes(report) ==
  LET low == IF report.executive_summary.resolution_rate_percent < 50 * 100
             THEN <<<<"Low threat resolution rate">>>> ELSE <<>>
      volume == IF report.executive_summary.total_threats > 100
                THEN <<<<"High threat volume">>>> ELSE <<>>
      critical == SelectSeq(report.threat_analysis.by_type,
                            LAMBDA item : "critical" \in DOMAIN item[2].by_severity)
  IN  low \o volume \o
      [i \in DOMAIN critical |-> <<"Critical", critical[i][1], "threats detected">>]

IdentifyCriticalIssues(report) ==
  LET low == IF report.executive_summary.resolution_rate_percent < 50 * 100
             THEN <<<<"Low threat resolution rate">>>> ELSE <<>>
      volume == IF report.executive_summary.total_threats > 100
                THEN <<<<"High threat volume">>>> ELSE <<>>
      critical == SelectSeq(report.threat_analysis.top_threats,
                            LAMBDA item : "critical" \in DOMAIN item[2].by_severity)
  IN  low \o volume \o
      [i \in DOMAIN critical |-> <<"Critical", critical[i][1], "threats detected">>]

GenerateStrategicRecommendations(report) ==
  LET score == CalculateSecurityPostureScore(report)
  IN  (IF score < 70
       THEN <<<<"Invest in additional security monitoring and response capabilities">>>>
       ELSE <<>>)
      \o (IF report.executive_summary.total_threats > 50
          THEN <<<<"Consider implementing automated threat response systems">>>>
          ELSE <<>>)
      \o (IF report.model_security.threats_per_model > 5 * 100
          THEN <<<<"Review and strengthen individual model security configurations">>>>
          ELSE <<>>)
      \o <<<<"Regular security training for development teams">>,
           <<"Establish quarterly security review meetings">>>>

\* the dict _generate_executive_report builds from a summary report
ExecutiveReportOf(organization_id, clock, summary_report) ==
  LET coverage == ModelCoverage(summary_report.model_security)
  IN  IF ~coverage.ok THEN coverage
      ELSE Ok([report_type |-> "executive",
               organization_id |-> organization_id,
               period |-> summary_report.period,
               key_metrics |->
                 [security_posture_score |-> CalculateSecurityPostureScore(summary_report),
                  threat_trend |-> CalculateThreatTrend(summary_report),
                  resolution_efficiency |->
                    summary_report.executive_summary.resolution_rate_percent,
                  model_coverage |-> Percent2(coverage.value)],
               risk_assessment |->
                 [current_risk_level |-> AssessRiskLevel(summary_report),
                  critical_issues |-> IdentifyCriticalIssues(summary_report),
                  trending_threats |-> Prefix(summary_report.threat_analysis.top_threats, 3)],
               strategic_recommendations |-> GenerateStrategicRecommendations(summary_report),
               compliance_status |->
                 [monitoring_coverage |-> "Good",
                  incident_response |-> "Adequate",
                  policy_compliance |-> "Review Required"],
               generated_at |-> clock])

GenerateExecutiveReport(self, organization_id, start_date, end_date, clock, data, fail) ==
  LET summary_report ==
        GenerateSummaryReport(self, organization_id, start_date, end_date, clock, data, fail)
  IN  IF ~summary_report.out.ok THEN summary_report
      ELSE [out |-> ExecutiveReportOf(organization_id, clock, summary_report.out.value),
            calls |-> summary_report.calls]

\* DataProcessor.generate_security_report
\* DataProcessor.generate_security_report
GenerateSecurityReport(self, organization_id, report_type, days, clock, data, fail) ==
  LET end_date == clock
      start_date == DatetimeMinusDays(end_date, days)
  IN  IF ~start_date.ok THEN [out |-> start_date, calls |-> <<>>]
      ELSE IF report_type = "summary"
      THEN GenerateSummaryReport(self, organization_id, start_date.value, end_date,
                                 clock, data, fail)
      ELSE IF report_type = "detailed"
      THEN GenerateDetailedReport(self, organization_id, start_date.value, end_date,
                                  clock, data, fail)
      ELSE IF report_type = "executive"
      THEN GenerateExecutiveReport(self, organization_id, start_date.value, end_date,
                                   clock, data, fail)
      ELSE [out |-> Raise("ValueError", <<"Unknown report type:", report_type>>),
            calls |-> <<>>]

----------------------------------------------------------------------------
(* ThreatAnalyzer: threat analytics.                                       *)

\* a variant that gives an unlisted severity no weight
SeverityValueListedOnly(sev) ==
  CASE sev = "critical" -> 4
    [] sev = "high" -> 3
    [] sev = "medium" -> 2
    [] sev = "low" -> 1
    [] OTHER -> 0

SeverityValue(sev) ==
  CASE sev = "critical" -> 4
    [] sev = "high" -> 3
    [] sev = "medium" -> 2
    [] sev = "low" -> 1
    [] OTHER -> 1

CalculateSeverityScore(ts) ==
  IF ts = <<>> THEN Ok(Zero)
  ELSE TrueDiv(Sum([i \in DOMAIN ts |-> SeverityValue(Get(ts[i], "severity", "low"))]), Len(ts))

\* _analyze_threat_distribution: threat_type (default 'unknown') -> occurrences
AnalyzeThreatDistribution(records) ==
  LET TypeOf(r) == Get(r, "threat_type", "unknown")
  IN  [k \in {TypeOf(records[i]) : i \in DOMAIN records} |->
         Cardinality({i \in DOMAIN records : TypeOf(records[i]) = k})]

\* the (hour, count) items of hourly_distribution, in insertion order
HourlyItems(ts) ==
  LET stamped == SelectSeq(ts, LAMBDA t : "timestamp" \in DOMAIN t)
      Hour(i) == stamped[i].timestamp % 24
      first == SelectSeq([i \in DOMAIN stamped |-> i],
                         LAMBDA i : \A j \in 1..(i - 1) : Hour(j) # Hour(i))
  IN  [k \in DOMAIN first |->
         <<Hour(first[k]), Cardinality({i \in DOMAIN stamped : Hour(i) = Hour(first[k])})>>]

\* a variant that takes the first three hours in insertion order
AnalyzeTemporalPatternsFirstThree(ts) ==
  IF ts = <<>> THEN EmptyDict
  ELSE LET items == HourlyItems(ts)
       IN  [hourly_distribution |-> items, peak_hours |-> Prefix(items, 3)]

AnalyzeTemporalPatternsOfThreats(ts) ==
  IF ts = <<>> THEN EmptyDict
  ELSE LET items == HourlyItems(ts)
       IN  [hourly_distribution |-> items,
            peak_hours |-> Prefix(SortedDesc(items, [i \in DOMAIN items |-> items[i][2]]), 3)]

\* len(set(t.get('threat_type') for t in ts))
UniqueThreatTypes(ts) == Cardinality({Get(ts[i], "threat_type", None) : i \in DOMAIN ts})

AnalyzeModelVulnerabilities(ts) ==
  LET with_model == SelectSeq(ts, LAMBDA t : "model_id" \in DOMAIN t)
      Of(model_id) == SelectSeq(with_model, LAMBDA t : t.model_id = model_id)
  IN  [model_id \in {with_model[i].model_id : i \in DOMAIN with_model} |->
         [threat_count |-> Len(Of(model_id)),
          unique_threat_types |-> UniqueThreatTypes(Of(model_id)),
          avg_severity |-> CalculateSeverityScore(Of(model_id)).value]]

GenerateRecommendations(ts) ==
  LET threat_types == {Get(ts[i], "threat_type", None) : i \in DOMAIN ts}
  IN  (IF "adversarial_attack" \in threat_types
       THEN <<<<"Implement adversarial training to improve model robustness">>>> ELSE <<>>)
      \o (IF "data_extraction" \in threat_types
          THEN <<<<"Apply differential privacy techniques to protect training data">>>>
          ELSE <<>>)
      \o (IF "model_poisoning" \in threat_types
          THEN <<<<"Implement model integrity verification and anomaly detection">>>>
          ELSE <<>>)
      \o (IF Len(ts) > 10
          THEN <<<<"Consider implementing automated threat response mechanisms">>>>
          ELSE <<>>)

\* _analyze_trends: per threat_type the summed count and the last row's resolution_rate
AnalyzeTrends(pg_threats) ==
  [k \in {pg_threats[i].threat_type : i \in DOMAIN pg_threats} |->
     LET mine == SelectSeq(pg_threats, LAMBDA r : r.threat_type = k)
     IN  [count |-> Sum([i \in DOMAIN mine |-> mine[i].count]),
          resolution_rate |-> mine[Len(mine)].resolution_rate]]

\* the rows of analyze_threats' GROUP BY query: AVG(CASE WHEN is_resolved ...) per group
TrendRows(rows, severity) ==
  LET kept == IF severity = None THEN rows
              ELSE SelectSeq(rows, LAMBDA r : r.severity = severity)
  IN  [i \in DOMAIN kept |->
         [threat_type |-> kept[i].threat_type, severity |-> kept[i].severity,
          count |-> kept[i].count,
          resolution_rate |-> TrueDiv(kept[i].resolved, kept[i].count).value]]

\* threat_detection_logs.find(mongo_filter): a document without the timestamp (or
\* the severity) a filter names does not match it
FindThreatsInWindow(docs, start_date, end_date, severity) ==
  SelectSeq(docs, LAMBDA t :
    /\ "timestamp" \in DOMAIN t
    /\ start_date <= t.timestamp
    /\ t.timestamp <= end_date
    /\ severity # None => ("severity" \in DOMAIN t /\ t.severity = severity))

FindByModel(docs, model_id) ==
  SelectSeq(docs, LAMBDA t : "model_id" \in DOMAIN t /\ t.model_id = model_id)

ThreatAnalyticsOf(found, pg_threats) ==
  [summary |->
     [total_threats |-> Len(found),
      unique_threat_types |-> UniqueThreatTypes(found),
      avg_severity_score |-> CalculateSeverityScore(found).value,
      detection_rate |-> CalculateDetectionRate(found).value,
      false_positive_rate |-> CalculateFalsePositiveRate(found).value],
   threat_distribution |-> AnalyzeThreatDistribution(found),
   temporal_patterns |-> AnalyzeTemporalPatternsOfThreats(found),
   model_vulnerabilities |-> AnalyzeModelVulnerabilities(found),
   recommendations |-> GenerateRecommendations(found),
   trends |-> AnalyzeTrends(pg_threats)]

ThreatCalls ==
  <<<<"threat_detection_logs", "find">>, <<"pg_pool", "acquire">>,
    <<"security_threats", "fetch">>>>

\* a variant that answers without the trends when the PostgreSQL query fails
AnalyzeThreatsDegraded(self, organization_id, days, severity, clock, docs, data, fail) ==
  LET end_date == clock
      window == DatetimeMinusDays(end_date, days)
      start_date == window.value
      found == FindThreatsInWindow(docs, start_date, end_date, severity)
  IN  IF ~window.ok THEN [out |-> window, calls |-> <<>>]
      ELSE IF self.mongo_db = None
      THEN [out |-> NoneTypeError("threat_detection_logs"), calls |-> <<>>]
      ELSE IF fail = 1
      THEN [out |-> StoreError(ThreatCalls[1]), calls |-> Prefix(ThreatCalls, 1)]
      ELSE IF self.pg_pool = None
      THEN [out |-> NoneTypeError("acquire"), calls |-> Prefix(ThreatCalls, 1)]
      ELSE IF fail \in 2..3
      THEN [out |-> Ok(ThreatAnalyticsOf(found, <<>>)), calls |-> Prefix(ThreatCalls, fail)]
      ELSE [out |-> Ok(ThreatAnalyticsOf(found, TrendRows(data.security_threats, severity))),
            calls |-> ThreatCalls]

\* ThreatAnalyzer.analyze_threats
AnalyzeThreats(self, organization_id, days, severity, clock, docs, data, fail) ==
  LET end_date == clock
      window == DatetimeMinusDays(end_date, days)
      start_date == window.value
      found == FindThreatsInWindow(docs, start_date, end_date, severity)
  IN  IF ~window.ok THEN [out |-> window, calls |-> <<>>]
      ELSE IF self.mongo_db = None
      THEN [out |-> NoneTypeError("threat_detection_logs"), calls |-> <<>>]
      ELSE IF fail = 1
      THEN [out |-> StoreError(ThreatCalls[1]), calls |-> Prefix(ThreatCalls, 1)]
      ELSE IF self.pg_pool = None
      THEN [out |-> NoneTypeError("acquire"), calls |-> Prefix(ThreatCalls, 1)]
      ELSE IF fail \in 2..3
      THEN [out |-> StoreError(ThreatCalls[fail]), calls |-> Prefix(ThreatCalls, fail)]
      ELSE [out |-> Ok(ThreatAnalyticsOf(found, TrendRows(data.security_threats, severity))),
            calls |-> ThreatCalls]

----------------------------------------------------------------------------
(* Inputs of the DataProcessor functions.                                  *)

ThreatTypes == {"model_poisoning", "data_extraction"}

\* (count, resolved) of a grouped row: COUNT(*) >= 1 and 0 <= resolved <= count
RowCounts == {<<1, 0>>, <<1, 1>>, <<3, 1>>}

ThreatRows ==
  {[threat_type |-> t, severity |-> s, count |-> c[1], resolved |-> c[2]] :
     t \in ThreatTypes, s \in {"critical", "low"}, c \in RowCounts}

\* GROUP BY threat_type, severity: no two rows of a result share both
RowLists ==
  {rows \in SeqsUpTo(ThreatRows, MaxRows) :
     \A i, j \in DOMAIN rows :
       (rows[i].threat_type = rows[j].threat_type /\ rows[i].severity = rows[j].severity)
         => i = j}

\* COUNT(*) and COUNT(CASE WHEN is_active ...) of ai_models
ModelCounts ==
  {m \in [total_models : 0..MaxModels, active_models : 0..MaxModels] :
     m.active_models <= m.total_models}

EmptyStore ==
  [security_threats |-> <<>>,
   ai_models |-> [total_models |-> 0, active_models |-> 0],
   audit_logs |-> [active_users |-> 0, total_actions |-> 0],
   security_events |-> 0,
   threat_detection_logs |-> 0]

Stores ==
  {[security_threats |-> rows,
    ai_models |-> models,
    audit_logs |-> [active_users |-> 1, total_actions |-> 3],
    security_events |-> 2,
    threat_detection_logs |-> Len(rows)] : rows \in RowLists, models \in ModelCounts}

ReportTypes == {"summary", "detailed", "executive"}

NoReports == [t \in ReportTypes |-> NotApplied]

\* a DataProcessor whose initialize() has completed
Initialized == [pg_pool |-> "pg_pool", mongo_db |-> "mongo_db"]

Organizations == {"org-1"}

InitReport ==
  /\ threats = <<>>
  /\ interactions = <<>>
  /\ store \in Stores
  /\ now = ClockReading
  /\ report_arg = NoReport
  /\ result = NotApplied
  /\ reports = NoReports
  /\ Constructed

\* generate_security_report(organization_id, report_type, 30) with every query answered
ReportGenerated(report_type) ==
  /\ \E organization_id \in Organizations :
       reports' = [reports EXCEPT ![report_type] =
                     [fn |-> "generate_security_report",
                      out |-> GenerateSecurityReport(Initialized, organization_id, report_type,
                                                     30, now, store, 0).out]]
  /\ UNCHANGED <<threats, interactions, store, now, report_arg, result, phase, db, handles, last, inflight>>

NextReport == \E report_type \in ReportTypes : ReportGenerated(report_type)

SpecReport == InitReport /\ [][NextReport]_vars

----------------------------------------------------------------------------
(* Inputs of the ThreatAnalyzer functions.                                 *)

Severities == {"critical", "high", "medium", "low"}

\* documents that differ in severity (absent, known, unknown), in timestamp
\* (absent, now, 7 days 12 hours old, 31 days old) and in the false_positive flag
ThreatDocs ==
  {[threat_type |-> "model_poisoning"]}
  \cup {[threat_type |-> "model_poisoning", severity |-> s] : s \in Severities \cup {"info"}}
  \cup {[threat_type |-> "data_extraction", severity |-> "low", timestamp |-> ClockReading - age] :
          age \in {0, 7 * 24 + 12, 31 * 24}}
  \cup {[threat_type |-> "data_extraction", severity |-> "low", false_positive |-> fp] :
          fp \in BOOLEAN}

CriticalDoc == [threat_type |-> "model_poisoning", severity |-> "critical"]

ThreatLists == SeqsUpTo(ThreatDocs, MaxThreats) \cup {Repeat(CriticalDoc, 50)}

InteractionDoc == [user_id |-> "u1", duration_ms |-> 10]

InteractionLists == {Repeat(InteractionDoc, n) : n \in {0, 1000, 1001}}

InitAnalyzer ==
  /\ threats \in ThreatLists
  /\ interactions \in InteractionLists
  /\ store = EmptyStore
  /\ now = ClockReading
  /\ report_arg = NoReport
  /\ result = NotApplied
  /\ reports = NoReports
  /\ Constructed

ApplyModelSecurityScore ==
  /\ result' = [fn |-> "model_security_score",
                out |-> Ok(CalculateModelSecurityScore(threats, interactions))]
  /\ UNCHANGED <<threats, interactions, store, now, report_arg, reports, phase, db, handles, last, inflight>>

ApplyThreatExposure ==
  /\ result' = [fn |-> "threat_exposure", out |-> CalculateThreatExposure(threats, now)]
  /\ UNCHANGED <<threats, interactions, store, now, report_arg, reports, phase, db, handles, last, inflight>>

ApplySeverityScore ==
  /\ result' = [fn |-> "severity_score", out |-> CalculateSeverityScore(threats)]
  /\ UNCHANGED <<threats, interactions, store, now, report_arg, reports, phase, db, handles, last, inflight>>

\* the type column of an ai_models row: the four listed types and another one
ModelTypes == {"tensorflow", "pytorch", "onnx", "huggingface", "sklearn"}

ApplyAssessVulnerabilities(model_type) ==
  /\ result' = [fn |-> "vulnerability_assessment", model_type |-> model_type,
                out |-> Ok(AssessVulnerabilities([type |-> model_type], threats, now))]
  /\ UNCHANGED <<threats, interactions, store, now, report_arg, reports, phase, db, handles, last, inflight>>

NextAnalyzer ==
  \/ ApplyModelSecurityScore
  \/ ApplyThreatExposure
  \/ ApplySeverityScore
  \/ \E model_type \in ModelTypes : ApplyAssessVulnerabilities(model_type)

SpecAnalyzer == InitAnalyzer /\ [][NextAnalyzer]_vars

----------------------------------------------------------------------------
(* The rates, applied to both kinds of input.                              *)

SummaryOrExecutive == {"summary", "executive"}

InitRates ==
  /\ \/ threats \in SeqsUpTo(ThreatDocs, MaxThreats) /\ store = EmptyStore
     \/ threats = <<>> /\ store \in Stores
  /\ interactions = <<>>
  /\ now = ClockReading
  /\ report_arg = NoReport
  /\ result = NotApplied
  /\ reports = NoReports
  /\ Constructed

ApplyDetectionRate ==
  /\ result' = [fn |-> "detection_rate", out |-> CalculateDetectionRate(threats)]
  /\ UNCHANGED <<threats, interactions, store, now, report_arg, reports, phase, db, handles, last, inflight>>

ApplyFalsePositiveRate ==
  /\ result' = [fn |-> "false_positive_rate", out |-> CalculateFalsePositiveRate(threats)]
  /\ UNCHANGED <<threats, interactions, store, now, report_arg, reports, phase, db, handles, last, inflight>>

\* the analytics of analyze_threats over the documents found
ApplyThreatAnalytics ==
  /\ result' = [fn |-> "threat_analytics", out |-> Ok(ThreatAnalyticsOf(threats, <<>>))]
  /\ UNCHANGED <<threats, interactions, store, now, report_arg, reports, phase, db, handles, last, inflight>>

NextRates ==
  \/ ApplyDetectionRate
  \/ ApplyThreatAnalytics
  \/ ApplyFalsePositiveRate
  \/ \E report_type \in SummaryOrExecutive : ReportGenerated(report_type)

SpecRates == InitRates /\ [][NextRates]_vars

----------------------------------------------------------------------------
(* The posture score, applied to report dicts.                             *)

\* resolution_rate_percent values, in hundredths of a percent
RatePercents == {0, 3333, 5000, 6667, 9999, 10000}

ThreatTotals == {0, 1, 14, 15, 16, 40}

ReportDicts ==
  {[executive_summary |-> [total_threats |-> t, resolution_rate_percent |-> r],
    model_security |-> m] : t \in ThreatTotals, r \in RatePercents, m \in ModelCounts}

InitPosture ==
  /\ threats = <<>>
  /\ interactions = <<>>
  /\ store = EmptyStore
  /\ now = ClockReading
  /\ report_arg \in ReportDicts
  /\ result = NotApplied
  /\ reports = NoReports
  /\ Constructed

ApplySecurityPostureScore ==
  /\ result' = [fn |-> "security_posture_score",
                out |-> Ok(CalculateSecurityPostureScore(report_arg))]
  /\ UNCHANGED <<threats, interactions, store, now, report_arg, reports, phase, db, handles, last, inflight>>

ApplyRiskLevel ==
  /\ result' = [fn |-> "risk_level", out |-> Ok(AssessRiskLevel(report_arg))]
  /\ UNCHANGED <<threats, interactions, store, now, report_arg, reports, phase, db, handles, last, inflight>>

NextPosture == ApplySecurityPostureScore \/ ApplyRiskLevel

SpecPosture == InitPosture /\ [][NextPosture]_vars

----------------------------------------------------------------------------
(* Summary and executive reports over many threat types and large counts.  *)

TypeNames ==
  <<"model_poisoning", "data_extraction", "adversarial_attack", "prompt_injection",
    "model_inversion", "membership_inference", "backdoor_trigger">>

\* the grouped row of a threat type: open and critical, resolved, or half resolved
TypeChoices ==
  {[severity |-> "critical", count |-> 1, resolved |-> 0],
   [severity |-> "low", count |-> 2, resolved |-> 2],
   [severity |-> "high", count |-> 2, resolved |-> 1]}

\* the rows of the first n types; only the first type may be half resolved
TypeRows(n) ==
  {[k \in 1..n |-> [threat_type |-> TypeNames[k]] @@ choice[k]] :
     choice \in {c \in [1..n -> TypeChoices] : \A k \in 2..n : c[k].severity # "high"}}

\* a further row of the first type, of another severity and with a large count
LargeRows ==
  {[threat_type |-> TypeNames[1], severity |-> "medium", count |-> 19, resolved |-> 0],
   [threat_type |-> TypeNames[1], severity |-> "medium", count |-> 49, resolved |-> 49],
   [threat_type |-> TypeNames[1], severity |-> "critical", count |-> 99, resolved |-> 0],
   [threat_type |-> TypeNames[1], severity |-> "critical", count |-> 99, resolved |-> 99]}

ManyTypeRowLists ==
  UNION {TypeRows(n) : n \in 0..MaxTypes}
  \cup UNION {{Append(rows, large) : rows \in TypeRows(n), large \in LargeRows} :
                n \in 1..MaxTypes}

ManyTypeStores ==
  {[security_threats |-> rows,
    ai_models |-> [total_models |-> side[1], active_models |-> side[2]],
    audit_logs |-> [active_users |-> 1, total_actions |-> 3],
    security_events |-> side[3],
    threat_detection_logs |-> Len(rows)] :
     rows \in ManyTypeRowLists,
     side \in {<<0, 0, 1000>>, <<5, 4, 1000>>, <<5, 4, 1001>>, <<5, 3, 1000>>, <<5, 3, 1001>>}}

InitManyTypes ==
  /\ threats = <<>>
  /\ interactions = <<>>
  /\ store \in ManyTypeStores
  /\ now = ClockReading
  /\ report_arg = NoReport
  /\ result = NotApplied
  /\ reports = NoReports
  /\ Constructed

NextManyTypes == \E report_type \in SummaryOrExecutive : ReportGenerated(report_type)

SpecManyTypes == InitManyTypes /\ [][NextManyTypes]_vars

----------------------------------------------------------------------------
(* ThreatAnalyzer._analyze_temporal_patterns on lists with several hours.  *)

\* documents of four hours of the day (one hour on two days), and one that has
\* no timestamp
HourDocs ==
  {[threat_type |-> "model_poisoning", timestamp |-> ClockReading - age] :
     age \in {1, 3, 5, 7, 24 + 3}}
  \cup {[threat_type |-> "model_poisoning"]}

InitTemporal ==
  /\ threats \in SeqsUpTo(HourDocs, MaxStamped)
  /\ interactions = <<>>
  /\ store = EmptyStore
  /\ now = ClockReading
  /\ report_arg = NoReport
  /\ result = NotApplied
  /\ reports = NoReports
  /\ Constructed

ApplyTemporalPatterns ==
  /\ result' = [fn |-> "temporal_patterns",
                out |-> Ok(AnalyzeTemporalPatternsOfThreats(threats))]
  /\ UNCHANGED <<threats, interactions, store, now, report_arg, reports, phase, db, handles, last, inflight>>

NextTemporal == ApplyTemporalPatterns

SpecTemporal == InitTemporal /\ [][NextTemporal]_vars

----------------------------------------------------------------------------
(* ThreatAnalyzer: per-model security analysis.                            *)

AnalyzeInteractionPatterns(ins) ==
  IF ins = <<>> THEN EmptyDict
  ELSE [total_interactions |-> Len(ins),
        unique_users |-> Cardinality({ins[i].user_id : i \in {j \in DOMAIN ins :
                                                               "user_id" \in DOMAIN ins[j]}}),
        interaction_types |-> AnalyzeThreatDistribution(ins),
        avg_duration |->
          TrueDiv(Sum([i \in DOMAIN ins |-> Get(ins[i], "duration_ms", 0)]), Len(ins)).value]

GenerateModelRecommendations(model, ts) ==
  (IF Len(ts) > 5
   THEN <<<<"Model", model.name,
            "shows high threat activity - consider additional monitoring">>>>
   ELSE <<>>)
  \o (IF model.type \in {"huggingface", "pytorch"}
      THEN <<<<"Implement input validation and sanitization for language models">>>>
      ELSE <<>>)
  \o (IF \E i \in DOMAIN ts : Get(ts[i], "severity", None) = "critical"
      THEN <<<<"Address critical vulnerabilities immediately">>>>
      ELSE <<>>)

\* the value of model_security[model_id_str]: the dict display evaluates its
\* entries in order, and raises where one of them raises
ModelSecurityOf(model, model_threats, ins, clock) ==
  LET threat_exposure == CalculateThreatExposure(model_threats, clock)
  IN  IF ~threat_exposure.ok THEN threat_exposure
      ELSE Ok([model_info |->
                 [name |-> model.name, type |-> model.type, version |-> model.version],
               security_score |-> CalculateModelSecurityScore(model_threats, ins),
               vulnerability_assessment |-> AssessVulnerabilities(model, model_threats, clock),
               threat_exposure |-> threat_exposure.value,
               interaction_patterns |-> AnalyzeInteractionPatterns(ins),
               recommendations |-> GenerateModelRecommendations(model, model_threats)])

\* SELECT * FROM ai_models WHERE organization_id = $1 [AND id = $2]
FetchModels(models, model_id) ==
  IF model_id = None THEN models ELSE SelectSeq(models, LAMBDA m : m.id = model_id)

ModelCalls(model) ==
  <<<<"threat_detection_logs", "find", model.id>>, <<"model_interactions", "find", model.id>>>>

\* the external calls of a request that completes: one fetch, two finds per model
ModelSecurityCalls(models) ==
  LET acc[k \in 0..Len(models)] ==
        IF k = 0 THEN <<<<"pg_pool", "acquire">>, <<"ai_models", "fetch">>>>
        ELSE acc[k - 1] \o ModelCalls(models[k])
  IN  acc[Len(models)]

\* ThreatAnalyzer.analyze_model_security; fail numbers the external call that raises
AnalyzeModelSecurity(self, organization_id, model_id, clock, docs, ins, data, fail) ==
  LET models == FetchModels(data.models, model_id)
      first == ModelSecurityCalls(<<>>)
      loop[k \in 0..Len(models)] ==
        IF k = 0 THEN [out |-> Ok(EmptyDict), calls |-> first]
        ELSE LET before == loop[k - 1]
                 model == models[k]
                 entry == ModelSecurityOf(model, FindByModel(docs, model.id),
                                          FindByModel(ins, model.id), clock)
             IN  IF ~before.out.ok THEN before
                 ELSE IF self.mongo_db = None
                 THEN [out |-> NoneTypeError("threat_detection_logs"), calls |-> before.calls]
                 ELSE IF fail = 2 * k + 1
                 THEN [out |-> StoreError(ModelCalls(model)[1]),
                       calls |-> Append(before.calls, ModelCalls(model)[1])]
                 ELSE IF fail = 2 * k + 2
                 THEN [out |-> StoreError(ModelCalls(model)[2]),
                       calls |-> before.calls \o ModelCalls(model)]
                 ELSE [out |-> IF entry.ok
                               THEN Ok(SetItem(before.out.value, model.id, entry.value))
                               ELSE entry,
                       calls |-> before.calls \o ModelCalls(model)]
  IN  IF self.pg_pool = None
      THEN [out |-> NoneTypeError("acquire"), calls |-> <<>>]
      ELSE IF fail \in 1..2
      THEN [out |-> StoreError(first[fail]), calls |-> Prefix(first, fail)]
      ELSE loop[Len(models)]

----------------------------------------------------------------------------
(* ThreatAnalyzer: the simulated deep analysis and its best-effort record. *)

\* confidence is kept in hundredths
AnalysisResultOf(model_id, analysis_type, clock) ==
  [model_id |-> model_id,
   analysis_type |-> analysis_type,
   timestamp |-> clock,
   security_assessment |->
     [overall_score |-> 75, vulnerabilities_found |-> 3, critical_issues |-> 0,
      high_issues |-> 1, medium_issues |-> 2, low_issues |-> 0],
   detailed_findings |->
     <<[type |-> "adversarial_vulnerability", severity |-> "high", confidence |-> 85,
        description |-> "Model shows sensitivity to adversarial perturbations",
        recommendation |-> "Implement adversarial training or input preprocessing"],
       [type |-> "data_leakage", severity |-> "medium", confidence |-> 72,
        description |-> "Potential memorization of training data detected",
        recommendation |-> "Apply differential privacy techniques"]>>,
   performance_impact |->
     [latency_ms |-> 150, memory_usage_mb |-> 512, cpu_utilization |-> 45]]

AnalysisDocument(organization_id, model_id, analysis, clock) ==
  [into |-> "model_analysis_results", organization_id |-> organization_id,
   model_id |-> model_id, timestamp |-> clock, result |-> analysis]

AnalysisRow(organization_id, model_id, analysis, clock) ==
  [into |-> "llm_test_results", organization_id |-> organization_id, model_id |-> model_id,
   test_type |-> analysis.analysis_type, status |-> "completed",
   metrics |-> analysis.security_assessment, completed_at |-> clock]

StoreCalls ==
  <<<<"model_analysis_results", "insert_one">>, <<"pg_pool", "acquire">>,
    <<"llm_test_results", "execute">>>>

\* the try block of _store_analysis_result: how it ends (it returns, or the step
\* that fails raises), the calls made and the documents written
StoreAnalysisAttempt(self, organization_id, model_id, analysis, clock, fail) ==
  LET doc == AnalysisDocument(organization_id, model_id, analysis, clock)
      row == AnalysisRow(organization_id, model_id, analysis, clock)
  IN  IF self.mongo_db = None
      THEN [tried |-> NoneTypeError("model_analysis_results"), calls |-> <<>>, writes |-> <<>>]
      ELSE IF fail = 1
      THEN [tried |-> StoreError(StoreCalls[1]), calls |-> Prefix(StoreCalls, 1),
            writes |-> <<>>]
      ELSE IF self.pg_pool = None
      THEN [tried |-> NoneTypeError("acquire"), calls |-> Prefix(StoreCalls, 1),
            writes |-> <<doc>>]
      ELSE IF fail \in 2..3
      THEN [tried |-> StoreError(StoreCalls[fail]), calls |-> Prefix(StoreCalls, fail),
            writes |-> <<doc>>]
      ELSE [tried |-> Ok(None), calls |-> StoreCalls, writes |-> <<doc, row>>]

\* a _store_analysis_result whose except clause re-raises
StoreAnalysisResultRaising(self, organization_id, model_id, analysis, clock, fail) ==
  LET attempt == StoreAnalysisAttempt(self, organization_id, model_id, analysis, clock, fail)
  IN  [out |-> attempt.tried,
       calls |-> attempt.calls, writes |-> attempt.writes]

\* ThreatAnalyzer._store_analysis_result: except Exception logs and does not raise
StoreAnalysisResult(self, organization_id, model_id, analysis, clock, fail) ==
  LET attempt == StoreAnalysisAttempt(self, organization_id, model_id, analysis, clock, fail)
  IN  [out |-> Ok(None), calls |-> attempt.calls, writes |-> attempt.writes]

\* ThreatAnalyzer.analyze_model
AnalyzeModel(self, organization_id, model_id, analysis_type, clock, fail) ==
  LET analysis_result == AnalysisResultOf(model_id, analysis_type, clock)
      stored == StoreAnalysisResult(self, organization_id, model_id, analysis_result,
                                    clock, fail)
  IN  [out |-> IF stored.out.ok THEN Ok(analysis_result) ELSE stored.out,
       computed |-> analysis_result,
       calls |-> stored.calls,
       writes |-> stored.writes]

----------------------------------------------------------------------------
(* MetricsCollector.  A byte count is kept in MiB, a psutil percentage in  *)
(* tenths.                                                                 *)

\* round(mib * 2^20 / 1024**3, 2), in hundredths of a GiB
RoundGb(mib) == RoundHalfEven(mib * 100, 1024)

PerformanceMetric(metric_type, data, clock) ==
  [into |-> "performance_metrics", timestamp |-> clock, metric_type |-> metric_type,
   data |-> data, service |-> "monitoring"]

MetricCalls == <<<<"performance_metrics", "insert_one">>>>

\* the try block of _store_performance_metric
StoreMetricAttempt(self, metric_type, data, clock, fail) ==
  IF self.mongo_db = None
  THEN [tried |-> NoneTypeError("performance_metrics"), calls |-> <<>>, writes |-> <<>>]
  ELSE IF fail = 1
  THEN [tried |-> StoreError(MetricCalls[1]), calls |-> MetricCalls, writes |-> <<>>]
  ELSE [tried |-> Ok(None), calls |-> MetricCalls,
        writes |-> <<PerformanceMetric(metric_type, data, clock)>>]

\* MetricsCollector._store_performance_metric: except Exception logs and does not raise
StorePerformanceMetric(self, metric_type, data, clock, fail) ==
  LET attempt == StoreMetricAttempt(self, metric_type, data, clock, fail)
  IN  [out |-> Ok(None), calls |-> attempt.calls, writes |-> attempt.writes]

\* MetricsCollector.collect_system_metrics, sample the psutil readings
CollectSystemMetrics(self, sample, clock, fail) ==
  LET used_fraction == TrueDiv(sample.disk.used, sample.disk.total)
      metrics ==
        [timestamp |-> clock,
         cpu |-> [usage_percent |-> sample.cpu_percent, count |-> sample.cpu_count,
                  load_average |-> sample.load_average],
         memory |-> [total_gb |-> RoundGb(sample.memory.total),
                     available_gb |-> RoundGb(sample.memory.available),
                     used_percent |-> sample.memory.percent,
                     free_gb |-> RoundGb(sample.memory.free)],
         disk |-> [total_gb |-> RoundGb(sample.disk.total),
                   used_gb |-> RoundGb(sample.disk.used),
                   free_gb |-> RoundGb(sample.disk.free),
                   used_percent |-> Percent2(used_fraction.value)],
         network |-> sample.network]
      stored == StorePerformanceMetric(self, "system", metrics, clock, fail)
  IN  IF ~used_fraction.ok
      THEN [out |-> used_fraction, computed |-> None, calls |-> <<>>, writes |-> <<>>]
      ELSE [out |-> IF stored.out.ok THEN Ok(metrics) ELSE stored.out,
            computed |-> metrics, calls |-> stored.calls, writes |-> stored.writes]

SecurityMetricCalls ==
  <<<<"pg_pool", "acquire">>, <<"security_threats", "fetchrow">>, <<"ai_models", "fetchrow">>,
    <<"audit_logs", "fetchrow">>, <<"security_events", "count_documents">>,
    <<"threat_detection_logs", "count_documents">>>>

SecurityMetricsOf(organization_id, clock, data) ==
  LET rows == data.security_threats
  IN  [timestamp |-> clock,
       threats |->
         [total |-> Sum([i \in DOMAIN rows |-> rows[i].count]),
          active |-> Sum([i \in DOMAIN rows |-> rows[i].count - rows[i].resolved]),
          detections_24h |-> data.threat_detection_logs],
       models |-> [total |-> data.ai_models.total_models,
                   active |-> data.ai_models.active_models],
       activity |-> [security_events_24h |-> data.security_events,
                     audit_logs_24h |-> data.audit_logs.total_actions],
       organization_id |-> organization_id]

\* MetricsCollector.collect_security_metrics; fail numbers the query that raises,
\* store_fail the write of _store_performance_metric
CollectSecurityMetrics(self, organization_id, clock, data, fail, store_fail) ==
  LET metrics == SecurityMetricsOf(organization_id, clock, data)
      stored == StorePerformanceMetric(self, "security", metrics, clock, store_fail)
      Failed(exc, n) ==
        [out |-> exc, computed |-> None, calls |-> Prefix(SecurityMetricCalls, n),
         writes |-> <<>>]
  IN  IF self.pg_pool = None THEN Failed(NoneTypeError("acquire"), 0)
      ELSE IF fail \in 1..4 THEN Failed(StoreError(SecurityMetricCalls[fail]), fail)
      ELSE IF self.mongo_db = None THEN Failed(NoneTypeError("security_events"), 4)
      ELSE IF fail \in 5..6 THEN Failed(StoreError(SecurityMetricCalls[fail]), fail)
      ELSE [out |-> IF stored.out.ok THEN Ok(metrics) ELSE stored.out,
            computed |-> metrics,
            calls |-> SecurityMetricCalls \o stored.calls,
            writes |-> stored.writes]

----------------------------------------------------------------------------
(* config/database.py: the process-wide handles, created on first use.     *)
(* Each function takes the globals and returns them with its outcome.      *)

\* get_db_connection; created tells whether asyncpg.create_pool succeeds
GetDbConnection(globals, created) ==
  IF globals.pg_pool # None THEN [db |-> globals, out |-> Ok(globals.pg_pool)]
  ELSE IF ~created
  THEN [db |-> globals, out |-> Raise("ConnectionError", <<"create_pool">>)]
  ELSE [db |-> [globals EXCEPT !.pg_pool = "pg_pool"], out |-> Ok("pg_pool")]

\* get_mongo_connection; the globals are assigned before the ping
GetMongoConnection(globals, pinged) ==
  LET assigned == [globals EXCEPT !.mongo_client = "mongo_client", !.mongo_db = "mongo_db"]
  IN  IF globals.mongo_client # None THEN [db |-> globals, out |-> Ok(globals.mongo_db)]
      ELSE IF ~pinged THEN [db |-> assigned, out |-> Raise("ConnectionError", <<"ping">>)]
      ELSE [db |-> assigned, out |-> Ok(assigned.mongo_db)]

\* get_redis_connection; the global is assigned before the ping
GetRedisConnection(globals, pinged) ==
  LET assigned == [globals EXCEPT !.redis_client = "redis_client"]
  IN  IF globals.redis_client # None THEN [db |-> globals, out |-> Ok(globals.redis_client)]
      ELSE IF ~pinged THEN [db |-> assigned, out |-> Raise("ConnectionError", <<"ping">>)]
      ELSE [db |-> assigned, out |-> Ok(assigned.redis_client)]

\* <component>.initialize(): each handle is assigned as soon as its getter returns,
\* and the first getter that raises ends the call.  reachable names the stores
\* that answer.
Initialize(globals, self, reachable) ==
  LET pg == GetDbConnection(globals, "pg" \in reachable)
      with_pg == [self EXCEPT !.pg_pool = pg.out.value]
      mongo == GetMongoConnection(pg.db, "mongo" \in reachable)
      with_mongo == [with_pg EXCEPT !.mongo_db = mongo.out.value]
      redis == GetRedisConnection(mongo.db, "redis" \in reachable)
  IN  IF ~pg.out.ok THEN [db |-> pg.db, self |-> self, out |-> pg.out]
      ELSE IF ~mongo.out.ok THEN [db |-> mongo.db, self |-> with_pg, out |-> mongo.out]
      ELSE IF "redis_client" \notin DOMAIN self
      THEN [db |-> mongo.db, self |-> with_mongo, out |-> Ok(None)]
      ELSE IF ~redis.out.ok THEN [db |-> redis.db, self |-> with_mongo, out |-> redis.out]
      ELSE [db |-> redis.db, self |-> [with_mongo EXCEPT !.redis_client = redis.out.value],
            out |-> Ok(None)]

----------------------------------------------------------------------------
(* main.py: startup and the request handlers.                              *)

StoreNames == {"pg", "mongo", "redis"}

\* startup_event; reachable names the stores that answer.  An exception leaves
\* the handles assigned so far and the application does not start.
StartupEvent(reachable) ==
  LET pg == GetDbConnection(db, "pg" \in reachable)
      mongo == GetMongoConnection(pg.db, "mongo" \in reachable)
      analyzer == Initialize(mongo.db, handles.threat_analyzer, reachable)
      collector == Initialize(analyzer.db, handles.metrics_collector, reachable)
  IN  /\ phase = "created"
      /\ IF ~pg.out.ok
         THEN phase' = "failed" /\ db' = pg.db /\ UNCHANGED handles
         ELSE IF ~mongo.out.ok
         THEN phase' = "failed" /\ db' = mongo.db /\ UNCHANGED handles
         ELSE IF ~analyzer.out.ok
         THEN /\ phase' = "failed"
              /\ db' = analyzer.db
              /\ handles' = [handles EXCEPT !.threat_analyzer = analyzer.self]
         ELSE /\ phase' = IF collector.out.ok THEN "running" ELSE "failed"
              /\ db' = collector.db
              /\ handles' = [handles EXCEPT !.threat_analyzer = analyzer.self,
                                            !.metrics_collector = collector.self]
      /\ UNCHANGED <<threats, interactions, store, now, report_arg, result, reports, last,
                     inflight>>

\* DataProcessor.initialize(), which startup_event does not call
DataProcessorInitialize ==
  LET processor == Initialize(db, handles.data_processor, StoreNames)
  IN  /\ phase = "running"
      /\ handles.data_processor.pg_pool = None
      /\ db' = processor.db
      /\ handles' = [handles EXCEPT !.data_processor = processor.self]
      /\ UNCHANGED <<threats, interactions, store, now, report_arg, result, reports,
                     phase, last, inflight>>

\* a handler's try / except: the payload, or HTTPException(500, detail)
Respond(out, detail, clock) ==
  IF out.ok
  THEN [status |-> 200, body |-> [success |-> TRUE, data |-> out.value, timestamp |-> clock]]
  ELSE [status |-> 500, body |-> [detail |-> <<detail>>]]

Served(endpoint, args, fail, core, detail) ==
  /\ last' = [endpoint |-> endpoint, args |-> args, fail |-> fail, core |-> core,
              response |-> Respond(core.out, detail, now)]
  /\ UNCHANGED <<threats, interactions, store, now, report_arg, result, reports,
                 phase, db, handles, inflight>>

\* count_documents of threat_detection_logs over the window of a request
DataInWindow(days) ==
  LET start_date == DatetimeMinusDays(now, days)
  IN  IF ~start_date.ok THEN store
      ELSE [store EXCEPT !.threat_detection_logs =
                           Len(FindThreatsInWindow(threats, start_date.value, now, None))]

\* GET /api/v1/analytics/threats
GetThreatAnalytics(organization_id, days, severity, fail) ==
  /\ phase = "running"
  /\ Served("get_threat_analytics",
            [organization_id |-> organization_id, days |-> days, severity |-> severity],
            fail,
            AnalyzeThreats(handles.threat_analyzer, organization_id, days, severity, now,
                           threats, store, fail),
            "Failed to get threat analytics")

\* GET /api/v1/analytics/models
GetModelAnalytics(organization_id, model_id, fail) ==
  /\ phase = "running"
  /\ Served("get_model_analytics",
            [organization_id |-> organization_id, model_id |-> model_id],
            fail,
            AnalyzeModelSecurity(handles.threat_analyzer, organization_id, model_id, now,
                                 threats, interactions, store, fail),
            "Failed to get model analytics")

\* GET /api/v1/metrics/system
GetSystemMetrics(sample, store_fail) ==
  /\ phase = "running"
  /\ Served("get_system_metrics", [sample |-> sample], store_fail,
            CollectSystemMetrics(handles.metrics_collector, sample, now, store_fail),
            "Failed to get system metrics")

\* GET /api/v1/metrics/security
GetSecurityMetrics(organization_id, fail, store_fail) ==
  /\ phase = "running"
  /\ fail = 0 \/ store_fail = 0
  /\ Served("get_security_metrics", [organization_id |-> organization_id],
            IF fail # 0 THEN fail ELSE Len(SecurityMetricCalls) + store_fail,
            CollectSecurityMetrics(handles.metrics_collector, organization_id, now,
                                   DataInWindow(0), fail, store_fail),
            "Failed to get security metrics")

\* POST /api/v1/analyze/model
AnalyzeModelRequest(organization_id, model_id, analysis_type, store_fail) ==
  /\ phase = "running"
  /\ Served("analyze_model",
            [organization_id |-> organization_id, model_id |-> model_id,
             analysis_type |-> analysis_type],
            store_fail,
            AnalyzeModel(handles.threat_analyzer, organization_id, model_id, analysis_type,
                         now, store_fail),
            "Failed to analyze model")

\* GET /api/v1/reports/security
GenerateSecurityReportRequest(organization_id, report_type, days, fail) ==
  /\ phase = "running"
  /\ Served("generate_security_report",
            [organization_id |-> organization_id, report_type |-> report_type,
             days |-> days],
            fail,
            GenerateSecurityReport(handles.data_processor, organization_id, report_type,
                                   days, now, DataInWindow(days), fail),
            "Failed to generate security report")

----------------------------------------------------------------------------
(* The service: the stores' content, startup, then requests.               *)

ServiceThreatDocs ==
  {[threat_type |-> "model_poisoning", severity |-> "critical",
    timestamp |-> ClockReading - 1, model_id |-> "m1"],
   [threat_type |-> "data_extraction", severity |-> "low",
    timestamp |-> ClockReading - 10 * 24, model_id |-> "m2", false_positive |-> TRUE]}

ServiceInteractions ==
  {<<>>, <<[model_id |-> "m2", user_id |-> "u1", duration_ms |-> 10, type |-> "inference"]>>}

ServiceModels ==
  <<[id |-> "m1", name |-> "classifier", type |-> "pytorch", version |-> "1.0",
     is_active |-> TRUE],
    [id |-> "m2", name |-> "ranker", type |-> "sklearn", version |-> "2.1",
     is_active |-> FALSE]>>

ServiceRows ==
  <<[threat_type |-> "model_poisoning", severity |-> "critical", count |-> 3, resolved |-> 1],
    [threat_type |-> "data_extraction", severity |-> "low", count |-> 1, resolved |-> 1]>>

ServiceStores ==
  {[security_threats |-> Prefix(ServiceRows, m),
    models |-> Prefix(ServiceModels, m),
    ai_models |->
      [total_models |-> m,
       active_models |-> Cardinality({i \in 1..m : ServiceModels[i].is_active})],
    audit_logs |-> [active_users |-> 1, total_actions |-> 3],
    security_events |-> 2,
    threat_detection_logs |-> 0] : m \in 0..2}

RequestReportTypes == ReportTypes \cup {"bogus_tier", "SUMMARY"}

\* the default window, and one that starts before datetime.min
RequestDays == {30, 800000}

SystemSamples ==
  {[cpu_percent |-> 125, cpu_count |-> 4, load_average |-> load,
    memory |-> [total |-> 16384, available |-> 6000, percent |-> 634, free |-> 1500],
    disk |-> [total |-> 102400, used |-> 33333, free |-> 69067],
    network |-> [bytes_sent |-> 10, bytes_recv |-> 20, packets_sent |-> 1,
                 packets_recv |-> 2]] : load \in {None, "loadavg"}}

Init ==
  /\ threats \in SeqsUpTo(ServiceThreatDocs, MaxThreats)
  /\ interactions \in ServiceInteractions
  /\ store \in ServiceStores
  /\ now = ClockReading
  /\ report_arg = NoReport
  /\ result = NotApplied
  /\ reports = NoReports
  /\ Constructed

Next ==
  \/ \E reachable \in SUBSET StoreNames : StartupEvent(reachable)
  \/ DataProcessorInitialize
  \/ \E organization_id \in Organizations, severity \in {None, "critical"},
        fail \in 0..Len(ThreatCalls) :
       GetThreatAnalytics(organization_id, 7, severity, fail)
  \/ \E organization_id \in Organizations, model_id \in {None, "m2"},
        fail \in 0..Len(ModelSecurityCalls(store.models)) :
       GetModelAnalytics(organization_id, model_id, fail)
  \/ \E sample \in SystemSamples, store_fail \in 0..Len(MetricCalls) :
       GetSystemMetrics(sample, store_fail)
  \/ \E organization_id \in Organizations, fail \in 0..Len(SecurityMetricCalls),
        store_fail \in 0..Len(MetricCalls) :
       GetSecurityMetrics(organization_id, fail, store_fail)
  \/ \E organization_id \in Organizations, store_fail \in 0..Len(StoreCalls) :
       AnalyzeModelRequest(organization_id, "m1", "full", store_fail)
  \/ \E organization_id \in Organizations, report_type \in RequestReportTypes,
        days \in RequestDays, fail \in 0..Len(SummaryCalls) :
       GenerateSecurityReportRequest(organization_id, report_type, days, fail)

Spec == Init /\ [][Next]_vars

----------------------------------------------------------------------------
(* Requests of several organizations in progress together: every await of  *)
(* a store query is a point where another request, or a writer of another  *)
(* organization, may run.  The stores hold the records of all              *)
(* organizations, each tagged with its organization_id.                    *)

\* the organization_id condition every query of the three operations carries
OfAnyOrganization(records, organization_id) == records

OfOrganization(records, organization_id) ==
  SelectSeq(records, LAMBDA r :
    "organization_id" \in DOMAIN r /\ r.organization_id = organization_id)

\* SELECT COUNT(*) as total_models, COUNT(CASE WHEN is_active ...) as active_models
CountModels(rows) ==
  [total_models |-> Len(rows),
   active_models |-> Len(SelectSeq(rows, LAMBDA m : m.is_active))]

\* SELECT COUNT(DISTINCT user_id) as active_users, COUNT(*) as total_actions
UserActivity(rows) ==
  [active_users |-> Cardinality({rows[i].user_id : i \in DOMAIN rows}),
   total_actions |-> Len(rows)]

\* count_documents({'organization_id': ..., 'timestamp': {'$gte': ..., '$lte': ...}})
CountDocuments(docs, start_date, end_date) ==
  Len(FindThreatsInWindow(docs, start_date, end_date, None))

\* the answer of the store to the next query of a request in progress
NextAnswer(organization_id, frame) ==
  LET k == Len(frame.got) + 1
      start_date == DatetimeMinusDays(now, frame.args.days).value
  IN  IF frame.op = "analyze_threats"
      THEN IF k = 1
           THEN FindThreatsInWindow(OfOrganization(threats, organization_id),
                                    start_date, now, frame.args.severity)
           ELSE TrendRows(OfOrganization(store.security_threats, organization_id),
                          frame.args.severity)
      ELSE IF frame.op = "analyze_model_security"
      THEN IF k = 1
           THEN FetchModels(OfOrganization(store.models, organization_id),
                            frame.args.model_id)
           ELSE IF k % 2 = 0
           THEN FindByModel(OfOrganization(threats, organization_id),
                            frame.got[1][k \div 2].id)
           ELSE FindByModel(OfOrganization(interactions, organization_id),
                            frame.got[1][k \div 2].id)
      ELSE IF k = 1 THEN OfOrganization(store.security_threats, organization_id)
      ELSE IF k = 2 THEN CountModels(OfOrganization(store.models, organization_id))
      ELSE IF k = 3 THEN UserActivity(OfOrganization(store.audit_logs, organization_id))
      ELSE IF k = 4
      THEN CountDocuments(OfOrganization(store.security_events, organization_id),
                          start_date, now)
      ELSE CountDocuments(OfOrganization(threats, organization_id), start_date, now)

\* analyze_model_security after the answers received so far: the entries of the
\* models whose two finds have returned
ModelSecuritySoFar(got, clock) ==
  LET models == got[1]
      done == (Len(got) - 1) \div 2
      loop[k \in 0..done] ==
        IF k = 0 THEN Ok(EmptyDict)
        ELSE LET before == loop[k - 1]
                 entry == ModelSecurityOf(models[k], got[2 * k], got[2 * k + 1], clock)
             IN  IF ~before.ok THEN before
                 ELSE IF entry.ok THEN Ok(SetItem(before.value, models[k].id, entry.value))
                 ELSE entry
  IN  loop[done]

\* whether the request has no further query to issue
NoMoreQueries(op, got, clock) ==
  IF op = "analyze_threats" THEN Len(got) = 2
  ELSE IF op = "analyze_model_security"
  THEN /\ Len(got) >= 1
       /\ Len(got) % 2 = 1
       /\ \/ Len(got) = 1 + 2 * Len(got[1])
          \/ ~ModelSecuritySoFar(got, clock).ok
  ELSE Len(got) = 5

\* what the operation returns or raises from the answers it received
OutcomeOf(organization_id, op, args, got, clock) ==
  IF op = "analyze_threats" THEN Ok(ThreatAnalyticsOf(got[1], got[2]))
  ELSE IF op = "analyze_model_security" THEN ModelSecuritySoFar(got, clock)
  ELSE GenerateSecurityReport(handles.data_processor, organization_id,
                              args.report_type, args.days, clock,
                              [security_threats |-> got[1], ai_models |-> got[2],
                               audit_logs |-> got[3], security_events |-> got[4],
                               threat_detection_logs |-> got[5]], 0).out

TenantRequests(organization_id) ==
  IF organization_id = "org-1"
  THEN {[op |-> "analyze_threats", args |-> [days |-> 7, severity |-> sev]] :
          sev \in {None, "critical"}}
       \cup {[op |-> "analyze_model_security", args |-> [days |-> 0, model_id |-> id]] :
               id \in {None, "m1"}}
       \cup {[op |-> "generate_security_report", args |-> [days |-> 30, report_type |-> t]] :
               t \in ReportTypes}
  ELSE {[op |-> "analyze_threats", args |-> [days |-> 7, severity |-> None]],
        [op |-> "analyze_model_security", args |-> [days |-> 0, model_id |-> None]],
        [op |-> "generate_security_report", args |-> [days |-> 30, report_type |-> "summary"]]}

InProgress(frame) == frame.op # "idle" /\ ~frame.done

\* a request of the organization starts: the handler calls the operation
BeginRequest(organization_id, request) ==
  /\ inflight[organization_id] = Idle
  /\ inflight' = [inflight EXCEPT ![organization_id] =
                    [op |-> request.op, args |-> request.args, got |-> <<>>,
                     done |-> FALSE, out |-> Ok(None), overlapped |-> FALSE]]
  /\ UNCHANGED <<threats, interactions, store, now, report_arg, result, reports,
                 phase, db, handles, last>>

\* the store answers the awaited query; after the last one the operation runs to
\* its return without another suspension.  A request marks the requests of the
\* other organizations that are between two queries as overlapped.
AwaitQuery(organization_id) ==
  LET frame == inflight[organization_id]
      got == Append(frame.got, NextAnswer(organization_id, frame))
      finished == NoMoreQueries(frame.op, got, now)
  IN  /\ InProgress(frame)
      /\ inflight' =
           [o \in Tenants |->
              IF o = organization_id
              THEN [frame EXCEPT
                      !.got = got, !.done = finished,
                      !.out = IF finished
                              THEN OutcomeOf(organization_id, frame.op, frame.args, got, now)
                              ELSE frame.out]
              ELSE IF InProgress(inflight[o]) /\ Len(inflight[o].got) >= 1
              THEN [inflight[o] EXCEPT !.overlapped = TRUE]
              ELSE inflight[o]]
      /\ UNCHANGED <<threats, interactions, store, now, report_arg, result, reports,
                     phase, db, handles, last>>

\* the handler answers and the request is over
ReturnResponse(organization_id) ==
  /\ inflight[organization_id] # Idle
  /\ inflight[organization_id].done
  /\ inflight' = [inflight EXCEPT ![organization_id] = Idle]
  /\ UNCHANGED <<threats, interactions, store, now, report_arg, result, reports,
                 phase, db, handles, last>>

TenantModels(organization_id) ==
  IF organization_id = "org-1"
  THEN [i \in DOMAIN ServiceModels |->
          [organization_id |-> "org-1"] @@ ServiceModels[i]]
  ELSE <<[organization_id |-> organization_id, id |-> "m9", name |-> "scorer",
          type |-> "tensorflow", version |-> "0.3", is_active |-> TRUE]>>

TenantThreatDocs(organization_id) ==
  IF organization_id = "org-1"
  THEN <<[organization_id |-> "org-1", threat_type |-> "model_poisoning",
          severity |-> "critical", timestamp |-> ClockReading - 1, model_id |-> "m2"],
         [organization_id |-> "org-1", threat_type |-> "data_extraction",
          severity |-> "low", timestamp |-> ClockReading - 10 * 24, model_id |-> "m2",
          false_positive |-> TRUE]>>
  ELSE <<[organization_id |-> organization_id, threat_type |-> "adversarial_attack",
          severity |-> "critical", timestamp |-> ClockReading - 2, model_id |-> "m1"]>>

TenantInteractions(organization_id) ==
  <<[organization_id |-> organization_id, model_id |-> "m1", user_id |-> "u1",
     duration_ms |-> 10, type |-> "inference"]>>

TenantRows(organization_id) ==
  IF organization_id = "org-1"
  THEN [i \in DOMAIN ServiceRows |-> [organization_id |-> "org-1"] @@ ServiceRows[i]]
  ELSE <<[organization_id |-> organization_id, threat_type |-> "prompt_injection",
          severity |-> "critical", count |-> 5, resolved |-> 0]>>

TenantAuditLogs(organization_id) ==
  <<[organization_id |-> organization_id, user_id |-> "u1", action |-> "login"],
    [organization_id |-> organization_id, user_id |-> "u1", action |-> "deploy"]>>

TenantEvents(organization_id) ==
  <<[organization_id |-> organization_id, timestamp |-> ClockReading - 3]>>

\* the records of the other organizations, put before those of "org-1" or removed
Foreign(records) == SelectSeq(records, LAMBDA r : r.organization_id # "org-1")

Toggled(records, foreign) ==
  IF Foreign(records) = <<>> THEN foreign \o records
  ELSE OfOrganization(records, "org-1")

\* another organization's activity inserts or deletes its own records
ForeignWrite(kind) ==
  /\ \/ /\ kind = "documents"
        /\ threats' = Toggled(threats, TenantThreatDocs("org-2"))
        /\ interactions' = Toggled(interactions, TenantInteractions("org-2"))
        /\ store' = [store EXCEPT
                       !.security_events = Toggled(@, TenantEvents("org-2"))]
     \/ /\ kind = "rows"
        /\ store' = [store EXCEPT
                       !.security_threats = Toggled(@, TenantRows("org-2")),
                       !.audit_logs = Toggled(@, TenantAuditLogs("org-2"))]
        /\ UNCHANGED <<threats, interactions>>
     \/ /\ kind = "models"
        /\ store' = [store EXCEPT !.models = Toggled(@, TenantModels("org-2"))]
        /\ UNCHANGED <<threats, interactions>>
  /\ inflight' =
       [o \in Tenants |->
          IF o = "org-1" /\ InProgress(inflight[o]) /\ Len(inflight[o].got) >= 1
          THEN [inflight[o] EXCEPT !.overlapped = TRUE]
          ELSE inflight[o]]
  /\ UNCHANGED <<now, report_arg, result, reports, phase, db, handles, last>>

\* the components after their initialize() calls succeeded, the stores holding
\* the records of "org-1" only
InitTenants ==
  LET analyzer == Initialize(NoConnections, NoHandles.threat_analyzer, StoreNames)
      collector == Initialize(analyzer.db, NoHandles.metrics_collector, StoreNames)
      processor == Initialize(collector.db, NoHandles.data_processor, StoreNames)
  IN  /\ \E n \in 0..2 :
           /\ threats = Prefix(TenantThreatDocs("org-1"), n)
           /\ interactions = Prefix(TenantInteractions("org-1"), n)
           /\ store = [security_threats |-> Prefix(TenantRows("org-1"), n),
                       models |-> Prefix(TenantModels("org-1"), n),
                       audit_logs |-> Prefix(TenantAuditLogs("org-1"), n),
                       security_events |-> Prefix(TenantEvents("org-1"), n)]
      /\ now = ClockReading
      /\ report_arg = NoReport
      /\ result = NotApplied
      /\ reports = NoReports
      /\ phase = "running"
      /\ db = processor.db
      /\ handles = [threat_analyzer |-> analyzer.self,
                    metrics_collector |-> collector.self,
                    data_processor |-> processor.self]
      /\ last = NoRequest
      /\ inflight = [organization_id \in Tenants |-> Idle]

NextTenants ==
  \/ \E organization_id \in Tenants :
       \E request \in TenantRequests(organization_id) :
         BeginRequest(organization_id, request)
  \/ \E organization_id \in Tenants : AwaitQuery(organization_id)
  \/ \E organization_id \in Tenants : ReturnResponse(organization_id)
  \/ \E kind \in {"documents", "rows", "models"} : ForeignWrite(kind)

SpecTenants == InitTenants /\ [][NextTenants]_vars

----------------------------------------------------------------------------
(* config/database.py under concurrent callers: a getter runs up to its    *)
(* await without interruption, and from the await's completion to its      *)
(* return or raise without interruption.  Here store is the state of the   *)
(* servers: the pools create_pool has created and the clients whose ping   *)
(* has succeeded.                                                          *)

Callers == 1..MaxCallers

\* the pool objects of successive create_pool calls
PoolNames == <<"pg_pool_1", "pg_pool_2", "pg_pool_3", "pg_pool_4">>

NotCalling == [fn |-> "none", pc |-> "idle", out |-> Ok(None)]

Awaiting(fn) == [fn |-> fn, pc |-> "awaiting", out |-> Ok(None)]

Returned(fn, value) == [fn |-> fn, pc |-> "returned", out |-> Ok(value)]

Raised(fn, msg) == [fn |-> fn, pc |-> "raised", out |-> Raise("ConnectionError", msg)]

\* get_db_connection up to 'await asyncpg.create_pool(...)', or to its return
CallGetDbConnection(caller) ==
  /\ inflight[caller].pc # "awaiting"
  /\ inflight' = [inflight EXCEPT ![caller] =
                    IF db.pg_pool # None
                    THEN Returned("get_db_connection", db.pg_pool)
                    ELSE Awaiting("get_db_connection")]
  /\ UNCHANGED <<threats, interactions, store, now, report_arg, result, reports,
                 phase, db, handles, last>>

\* create_pool completes: the global is assigned the new pool, which is returned
ResumeCreatePool(caller, created) ==
  LET pool == PoolNames[store.pools + 1]
  IN  /\ inflight[caller] = Awaiting("get_db_connection")
      /\ IF created
         THEN /\ store' = [store EXCEPT !.pools = @ + 1]
              /\ db' = [db EXCEPT !.pg_pool = pool]
              /\ inflight' = [inflight EXCEPT ![caller] =
                                Returned("get_db_connection", pool)]
         ELSE /\ inflight' = [inflight EXCEPT ![caller] =
                                Raised("get_db_connection", <<"create_pool">>)]
              /\ UNCHANGED <<store, db>>
      /\ UNCHANGED <<threats, interactions, now, report_arg, result, reports,
                     phase, handles, last>>

\* get_mongo_connection up to 'await mongo_client.admin.command("ping")', or to its
\* return
CallGetMongoConnection(caller) ==
  /\ inflight[caller].pc # "awaiting"
  /\ IF db.mongo_client # None
     THEN /\ inflight' = [inflight EXCEPT ![caller] =
                            Returned("get_mongo_connection", db.mongo_db)]
          /\ UNCHANGED db
     ELSE /\ db' = [db EXCEPT !.mongo_client = "mongo_client", !.mongo_db = "mongo_db"]
          /\ inflight' = [inflight EXCEPT ![caller] = Awaiting("get_mongo_connection")]
  /\ UNCHANGED <<threats, interactions, store, now, report_arg, result, reports,
                 phase, handles, last>>

\* get_redis_connection up to 'await redis_client.ping()', or to its return
CallGetRedisConnection(caller) ==
  /\ inflight[caller].pc # "awaiting"
  /\ IF db.redis_client # None
     THEN /\ inflight' = [inflight EXCEPT ![caller] =
                            Returned("get_redis_connection", db.redis_client)]
          /\ UNCHANGED db
     ELSE /\ db' = [db EXCEPT !.redis_client = "redis_client"]
          /\ inflight' = [inflight EXCEPT ![caller] = Awaiting("get_redis_connection")]
  /\ UNCHANGED <<threats, interactions, store, now, report_arg, result, reports,
                 phase, handles, last>>

\* the global a getter returns
HandleOf(fn) == IF fn = "get_mongo_connection" THEN "mongo_db" ELSE "redis_client"

\* the ping of get_mongo_connection or get_redis_connection completes
ResumePing(caller, pinged) ==
  LET fn == inflight[caller].fn
  IN  /\ inflight[caller].pc = "awaiting"
      /\ fn \in {"get_mongo_connection", "get_redis_connection"}
      /\ IF pinged
         THEN /\ store' = [store EXCEPT !.pinged = @ \cup {HandleOf(fn)}]
              /\ inflight' = [inflight EXCEPT ![caller] = Returned(fn, db[HandleOf(fn)])]
         ELSE /\ inflight' = [inflight EXCEPT ![caller] = Raised(fn, <<"ping">>)]
              /\ UNCHANGED store
      /\ UNCHANGED <<threats, interactions, now, report_arg, result, reports,
                     phase, db, handles, last>>

InitConnections ==
  /\ threats = <<>>
  /\ interactions = <<>>
  /\ store = [pools |-> 0, pinged |-> {}]
  /\ now = ClockReading
  /\ report_arg = NoReport
  /\ result = NotApplied
  /\ reports = NoReports
  /\ phase = "created"
  /\ db = NoConnections
  /\ handles = NoHandles
  /\ last = NoRequest
  /\ inflight = [caller \in Callers |-> NotCalling]

NextConnections ==
  \/ \E caller \in Callers : CallGetDbConnection(caller)
  \/ \E caller \in Callers, created \in BOOLEAN : ResumeCreatePool(caller, created)
  \/ \E caller \in Callers : CallGetMongoConnection(caller)
  \/ \E caller \in Callers : CallGetRedisConnection(caller)
  \/ \E caller \in Callers, pinged \in BOOLEAN : ResumePing(caller, pinged)

SpecConnections == InitConnections /\ [][NextConnections]_vars

----------------------------------------------------------------------------
(* ThreatAnalyzer claims.                                                  *)

\* the threat t with its severity set to sev
WithSeverity(t, sev) ==
  [k \in DOMAIN t \cup {"severity"} |-> IF k = "severity" THEN sev ELSE t[k]]

\* C5: threat_exposure never fails on a threat list that holds a record without a
\* timestamp: it returns total = the number of threats, counts a record without a
\* timestamp in none of last_24h, last_7d and last_30d, and counts a record
\* timestamped now in each of them.
C5_ThreatExposureToleratesMissingTimestamp ==
  (/\ result.fn = "threat_exposure"
   /\ \E i \in DOMAIN threats : "timestamp" \notin DOMAIN threats[i])
  => /\ result.out.ok
     /\ result.out.value.total = Len(threats)
     /\ \A w \in {"last_24h", "last_7d", "last_30d"} :
          /\ result.out.value[w] <=
               Cardinality({i \in DOMAIN threats : "timestamp" \in DOMAIN threats[i]})
          /\ result.out.value[w] >=
               Cardinality({i \in DOMAIN threats :
                              "timestamp" \in DOMAIN threats[i] /\ threats[i].timestamp = now})

\* C6: model_security_score is an integer in 0..100 for every threat list and
\* interaction list, it does not increase when a threat is added or when the
\* severity of a threat is raised to one with a larger penalty, and it is exactly 0
\* for 50 critical threats.
C6_ModelSecurityScoreBoundedMonotone ==
  result.fn = "model_security_score" =>
    LET score == result.out.value
    IN  /\ score \in 0..100
        /\ \A d \in ThreatDocs :
             CalculateModelSecurityScore(Append(threats, d), interactions) <= score
        /\ \A i \in DOMAIN threats : \A s \in Severities :
             SeverityPenalty(s) > ThreatPenalty(threats[i]) =>
               CalculateModelSecurityScore(
                 [threats EXCEPT ![i] = WithSeverity(threats[i], s)], interactions) <= score
        /\ threats = Repeat(CriticalDoc, 50) => score = 0

\* 50 critical threats have been scored, and the score is 0
C6_Witness ==
  /\ result.fn = "model_security_score"
  /\ threats = Repeat(CriticalDoc, 50)
  /\ result.out.value = 0

----------------------------------------------------------------------------
(* DataProcessor claims.                                                   *)

Applied(r) == r.fn # "none"

Succeeded(r) == Applied(r) /\ r.out.ok

\* C3: over the same store data, the executive_summary of the detailed report is
\* field for field the executive_summary of the summary report.
C3_DetailedExecutiveSummaryIsSummarys ==
  (Succeeded(reports["summary"]) /\ Succeeded(reports["detailed"])) =>
    LET summary == reports["summary"].out.value.executive_summary
        detailed == reports["detailed"].out.value.executive_summary
    IN  /\ DOMAIN detailed = DOMAIN summary
        /\ \A field \in DOMAIN summary : detailed[field] = summary[field]

\* both reports were generated over a store that holds threats
C3_Witness ==
  /\ Succeeded(reports["summary"])
  /\ Succeeded(reports["detailed"])
  /\ reports["summary"].out.value.executive_summary.total_threats > 0

AnalysisKeys == {"temporal_patterns", "model_interactions", "user_behavior", "attack_vectors"}

\* C4 as claimed: every key of the summary report is a key of the detailed report,
\* and the four analysis keys are keys of the detailed report, each holding an
\* analysis object.
C4_FourAnalysisKeysOfTheReport ==
  (Succeeded(reports["summary"]) /\ Succeeded(reports["detailed"])) =>
    LET summary == reports["summary"].out.value
        detailed == reports["detailed"].out.value
    IN  /\ DOMAIN summary \subseteq DOMAIN detailed
        /\ AnalysisKeys \subseteq DOMAIN detailed
        /\ \A key \in AnalysisKeys \cap DOMAIN detailed : "analysis" \in DOMAIN detailed[key]

\* C4, amended: the keys of the detailed report are the keys of the summary report
\* and the one key detailed_analysis, which the summary report lacks; the value of
\* detailed_analysis has exactly the four analysis keys, each holding an analysis
\* object.
C4_AnalysisKeysUnderDetailedAnalysis ==
  (Succeeded(reports["summary"]) /\ Succeeded(reports["detailed"])) =>
    LET summary == reports["summary"].out.value
        detailed == reports["detailed"].out.value
    IN  /\ DOMAIN detailed = DOMAIN summary \cup {"detailed_analysis"}
        /\ "detailed_analysis" \notin DOMAIN summary
        /\ DOMAIN detailed.detailed_analysis = AnalysisKeys
        /\ \A key \in AnalysisKeys : "analysis" \in DOMAIN detailed.detailed_analysis[key]

C4_Witness ==
  /\ Succeeded(reports["summary"])
  /\ Succeeded(reports["detailed"])
  /\ reports["detailed"].out.value.report_type = "detailed"

\* the rates, but for threats_per_model, are computed without a division by zero
\* and are 0 over an empty record set
RatesButPerModel ==
  /\ result.fn \in {"detection_rate", "false_positive_rate"} =>
       /\ result.out.ok
       /\ threats = <<>> => result.out.value = Zero
  /\ Applied(reports["summary"]) =>
       /\ reports["summary"].out.ok
       /\ store.security_threats = <<>> =>
            reports["summary"].out.value.executive_summary.resolution_rate_percent = 0
  /\ Applied(reports["executive"]) =>
       /\ reports["executive"].out.ok
       /\ store.ai_models.total_models = 0 =>
            reports["executive"].out.value.key_metrics.model_coverage = 0

\* C7 as claimed: every rate (resolution_rate_percent, detection_rate,
\* false_positive_rate, model_coverage, threats_per_model) is computed without a
\* division by zero and is 0 when its denominator record set is empty.
C7_EveryRateZeroOnEmpty ==
  /\ RatesButPerModel
  /\ (Succeeded(reports["summary"]) /\ store.ai_models.total_models = 0) =>
       reports["summary"].out.value.model_security.threats_per_model = 0

\* C7, amended: as claimed for resolution_rate_percent, detection_rate,
\* false_positive_rate and model_coverage; threats_per_model is computed without a
\* division by zero as total_threats / max(active_models, 1), so that with no
\* active model it is total_threats: 0 when there are no threats, not otherwise.
C7_RatesZeroOnEmptyButPerModel ==
  /\ RatesButPerModel
  /\ Succeeded(reports["summary"]) =>
       LET r == reports["summary"].out.value
       IN  /\ store.ai_models.active_models = 0 =>
                r.model_security.threats_per_model = r.executive_summary.total_threats * 100
           /\ store.security_threats = <<>> => r.model_security.threats_per_model = 0

\* every rate has been computed over its empty record set
C7_Witness ==
  /\ result.fn = "detection_rate"
  /\ threats = <<>>
  /\ store.security_threats = <<>>
  /\ store.ai_models.total_models = 0
  /\ Succeeded(reports["summary"])
  /\ Succeeded(reports["executive"])

\* C8: security_posture_score(report) is 100 - (100 - resolution_rate) * 0.5
\* - min(total_threats * 2, 30) - (1 - active_models / max(total_models, 1)) * 20,
\* clamped to at least 0 and truncated to an integer; it is within 0..100, and it
\* is 100 for 100% resolution, 0 threats and full model coverage.
C8_SecurityPostureScoreFormula ==
  result.fn = "security_posture_score" =>
    LET score == result.out.value
        rate == report_arg.executive_summary.resolution_rate_percent
        total_threats == report_arg.executive_summary.total_threats
        active == report_arg.model_security.active_models
        total == report_arg.model_security.total_models
        m == IF total >= 1 THEN total ELSE 1
        volume == IF total_threats * 2 < 30 THEN total_threats * 2 ELSE 30
        \* the formula's value times 200 * m
        scaled == 20000 * m - (10000 - rate) * m - 200 * m * volume - 4000 * (m - active)
    IN  /\ score \in 0..100
        /\ scaled < 0 => score = 0
        /\ scaled >= 0 => score * 200 * m <= scaled /\ scaled < (score + 1) * 200 * m
        /\ (rate = 10000 /\ total_threats = 0 /\ total >= 1 /\ active = total) => score = 100

\* the score of a report with 100% resolution, no threat and every model active
C8_Witness ==
  /\ result.fn = "security_posture_score"
  /\ report_arg.executive_summary.resolution_rate_percent = 10000
  /\ report_arg.executive_summary.total_threats = 0
  /\ report_arg.model_security.total_models >= 1
  /\ report_arg.model_security.active_models = report_arg.model_security.total_models
  /\ result.out.value = 100

----------------------------------------------------------------------------
(* Request-layer claims.                                                   *)

\* the message names the value
Names(msg, value) == \E i \in DOMAIN msg : msg[i] = value

UnknownReportType ==
  /\ last.endpoint = "generate_security_report"
  /\ last.args.report_type \notin ReportTypes

\* C1: for every report_type other than "summary", "detailed" and "executive",
\* DataProcessor.generate_security_report raises a ValueError whose message names
\* the report_type, and never an error of another type.
C1_UnknownReportTypeRaisesValueError ==
  UnknownReportType =>
    /\ ~last.core.out.ok
    /\ last.core.out.exc = "ValueError"
    /\ Names(last.core.out.msg, last.args.report_type)

\* C2: a request for a report of unknown report_type is answered with a client
\* error (4xx) whose message names the report_type, not with a server error.
C2_UnknownReportTypeIsClientError ==
  UnknownReportType =>
    /\ last.response.status \in 400..499
    /\ Names(last.response.body.detail, last.args.report_type)

\* the request's best-effort write failed after the result was computed
PersistenceFailed ==
  \/ last.endpoint = "analyze_model" /\ last.fail \in 1..Len(StoreCalls)
  \/ last.endpoint = "get_system_metrics" /\ last.fail \in 1..Len(MetricCalls)
  \/ /\ last.endpoint = "get_security_metrics"
     /\ last.fail \in (Len(SecurityMetricCalls) + 1)..(Len(SecurityMetricCalls) + Len(MetricCalls))

\* C9: when the best-effort write of a computed result fails (either write of
\* _store_analysis_result, or the write of _store_performance_metric), the failure
\* is discarded: the operation returns the computed result unchanged, the request
\* answers 200 with it, and the writes after the failed one are not made.
C9_PersistenceFailureIsSwallowed ==
  PersistenceFailed =>
    /\ last.core.out = Ok(last.core.computed)
    /\ last.response.status = 200
    /\ last.response.body.data = last.core.computed
    /\ Len(last.core.writes) < Len(last.core.calls)
    /\ last.endpoint = "analyze_model" => Len(last.core.writes) < 2

\* analyze_model answers 200 although the PostgreSQL insert failed after the
\* MongoDB document was written
C9_Witness ==
  /\ last.endpoint = "analyze_model"
  /\ last.fail = 3
  /\ Len(last.core.writes) = 1
  /\ last.core.writes[1].into = "model_analysis_results"
  /\ last.response.status = 200

QueryEndpoints ==
  {"get_threat_analytics", "get_model_analytics", "generate_security_report"}

\* the external calls of a request of the last kind when every call answers
PlannedCalls ==
  CASE last.endpoint = "get_threat_analytics" -> ThreatCalls
    [] last.endpoint = "get_model_analytics" ->
         ModelSecurityCalls(FetchModels(store.models, last.args.model_id))
    [] last.endpoint = "generate_security_report" -> SummaryCalls

\* C10: in analyze_threats, analyze_model_security and generate_security_report no
\* external call is made twice; a call that fails is the last call of the request
\* and the request answers with an error that carries no payload; a request that
\* answers 200 has made each of its calls exactly once and none of them failed.
C10_OneAttemptAndNoPartialPayload ==
  last.endpoint \in QueryEndpoints =>
    LET calls == last.core.calls
    IN  /\ \A i, j \in DOMAIN calls : calls[i] = calls[j] => i = j
        /\ last.fail \in 1..Len(calls) =>
             /\ last.fail = Len(calls)
             /\ ~last.core.out.ok
             /\ last.response.status = 500
             /\ DOMAIN last.response.body = {"detail"}
        /\ ~last.core.out.ok => last.response.status # 200
        /\ last.response.status = 200 =>
             /\ calls = PlannedCalls
             /\ last.fail \notin 1..Len(calls)
             /\ last.response.body.data = last.core.out.value

\* the PostgreSQL query of analyze_threats failed after the MongoDB find answered
C10_Witness ==
  /\ last.endpoint = "get_threat_analytics"
  /\ last.fail = 3
  /\ last.core.calls = ThreatCalls
  /\ last.core.out = StoreError(ThreatCalls[3])
  /\ last.response.status = 500

----------------------------------------------------------------------------
(* C11: requests of different organizations are independent.               *)

\* the stores as they would be with the records of one organization alone
Alone(records, organization_id) ==
  SelectSeq(records, LAMBDA r : r.organization_id = organization_id)

\* what the operation returns when it runs uninterrupted on the organization's
\* own records
AnswerAlone(organization_id, frame) ==
  LET own_threats == Alone(threats, organization_id)
      own_models == Alone(store.models, organization_id)
      start_date == DatetimeMinusDays(now, frame.args.days).value
  IN  IF frame.op = "analyze_threats"
      THEN AnalyzeThreats(handles.threat_analyzer, organization_id, frame.args.days,
                          frame.args.severity, now, own_threats,
                          [security_threats |-> Alone(store.security_threats, organization_id)],
                          0).out
      ELSE IF frame.op = "analyze_model_security"
      THEN AnalyzeModelSecurity(handles.threat_analyzer, organization_id,
                                frame.args.model_id, now,
                                own_threats, Alone(interactions, organization_id),
                                [models |-> own_models], 0).out
      ELSE GenerateSecurityReport(
             handles.data_processor, organization_id, frame.args.report_type,
             frame.args.days, now,
             [security_threats |-> Alone(store.security_threats, organization_id),
              ai_models |-> CountModels(own_models),
              audit_logs |-> UserActivity(Alone(store.audit_logs, organization_id)),
              security_events |->
                CountDocuments(Alone(store.security_events, organization_id), start_date, now),
              threat_detection_logs |-> CountDocuments(own_threats, start_date, now)],
             0).out

\* C11: whatever records other organizations hold, insert or delete, and however
\* the queries of a request of organization "org-1" interleave with those writes
\* and with the requests of other organizations, analyze_threats,
\* analyze_model_security and generate_security_report return for "org-1" what
\* they return on the records of "org-1" alone.
C11_RequestsOfOrganizationsIndependent ==
  LET frame == inflight["org-1"]
  IN  (frame # Idle /\ frame.done) => frame.out = AnswerAlone("org-1", frame)

\* a request of "org-1" completed successfully although records of another
\* organization changed, or a request of another organization ran, between two
\* of its queries, and foreign threat documents are in the store
C11_Witness ==
  LET frame == inflight["org-1"]
  IN  /\ frame # Idle
      /\ frame.done
      /\ frame.overlapped
      /\ frame.out.ok
      /\ frame.op = "analyze_model_security"
      /\ frame.out.value # EmptyDict
      /\ Foreign(threats) # <<>>
      /\ inflight["org-2"] # Idle

----------------------------------------------------------------------------
(* C12: the model security score as a closed formula.                      *)

\* the number of threats whose severity field is present and equal to sev
WithSeverityCount(ts, sev) ==
  Cardinality({i \in DOMAIN ts : "severity" \in DOMAIN ts[i] /\ ts[i].severity = sev})

\* C12: model_security_score(threats, interactions) is
\* max(0, 100 - 5 * count(threats) - (20 per critical, 15 per high, 10 per medium,
\* 5 per low, unknown or missing severity) - P), where P is 10 when there are
\* more than 1000 interactions and 0 otherwise (1000 interactions give no penalty).
C12_ModelSecurityScoreFormula ==
  LET n == Len(threats)
      critical == WithSeverityCount(threats, "critical")
      high == WithSeverityCount(threats, "high")
      medium == WithSeverityCount(threats, "medium")
      others == n - critical - high - medium
      P == IF Len(interactions) >= 1001 THEN 10 ELSE 0
      raw == 100 - 5 * n - 20 * critical - 15 * high - 10 * medium - 5 * others - P
  IN  result.fn = "model_security_score" =>
        result.out = Ok(IF raw < 0 THEN 0 ELSE raw)

\* the score of one threat of unknown severity with exactly 1000 interactions: 90
C12_Witness ==
  /\ result.fn = "model_security_score"
  /\ Len(interactions) = 1000
  /\ Len(threats) = 1
  /\ Get(threats[1], "severity", None) = "info"
  /\ result.out.value = 90

----------------------------------------------------------------------------
(* C13: the severity score is the mean severity weight.                    *)

\* C13: severity_score(records) is the arithmetic mean of the per-record value
\* (critical 4, high 3, medium 2, low 1, unknown or missing severity 1), is 0.0
\* for the empty sequence, and lies between 1 and 4 for a non-empty one.
C13_SeverityScoreIsMeanWeight ==
  LET n == Len(threats)
      critical == WithSeverityCount(threats, "critical")
      high == WithSeverityCount(threats, "high")
      medium == WithSeverityCount(threats, "medium")
      total == 4 * critical + 3 * high + 2 * medium + (n - critical - high - medium)
      score == result.out.value
  IN  result.fn = "severity_score" =>
        /\ result.out.ok
        /\ score.den > 0
        /\ score.num * n = total * score.den
        /\ n = 0 => score.num = 0
        /\ n > 0 => (score.den <= score.num /\ score.num <= 4 * score.den)

\* the score of a critical record followed by one of unlisted severity: 5/2
C13_Witness ==
  /\ result.fn = "severity_score"
  /\ Len(threats) = 2
  /\ Get(threats[1], "severity", None) = "critical"
  /\ Get(threats[2], "severity", None) = "info"
  /\ result.out.value = [num |-> 5, den |-> 2]

----------------------------------------------------------------------------
(* C14: detection rate and false positive rate.                            *)

\* the two rates of the analytics add up to one
RatesSumToOne(summary) ==
  LET d == summary.detection_rate
      f == summary.false_positive_rate
  IN  d.num * f.den + f.num * d.den = d.den * f.den

Flagged(t) == "false_positive" \in DOMAIN t

\* C14 as stated: the two rates are complementary only when every record has the
\* flag set explicitly.
C14_ComplementaryOnlyWithExplicitFlags ==
  (result.fn = "threat_analytics" /\ threats # <<>>) =>
    (RatesSumToOne(result.out.value.summary) =>
       \A i \in DOMAIN threats : Flagged(threats[i]))

\* C14 amended: detection_rate is the fraction of records whose flag is false or
\* missing, false_positive_rate the fraction of records whose flag is true, both
\* are 0 for the empty sequence, and for every non-empty sequence the two rates
\* sum to 1, whether or not a record lacks the flag.
C14_RatesAlwaysComplementary ==
  LET n == Len(threats)
      summary == result.out.value.summary
      d == summary.detection_rate
      f == summary.false_positive_rate
      flagged_true == Cardinality({i \in DOMAIN threats :
                                     Flagged(threats[i]) /\ threats[i].false_positive})
  IN  result.fn = "threat_analytics" =>
        /\ d.den > 0 /\ f.den > 0
        /\ f.num * n = flagged_true * f.den
        /\ d.num * n = (n - flagged_true) * d.den
        /\ n = 0 => (d.num = 0 /\ f.num = 0)
        /\ n > 0 => RatesSumToOne(summary)

\* a record without the flag and a false positive: both rates are 1/2
C14_Witness ==
  /\ result.fn = "threat_analytics"
  /\ Len(threats) = 2
  /\ ~Flagged(threats[1])
  /\ Flagged(threats[2]) /\ threats[2].false_positive
  /\ result.out.value.summary.detection_rate = [num |-> 1, den |-> 2]
  /\ result.out.value.summary.false_positive_rate = [num |-> 1, den |-> 2]

----------------------------------------------------------------------------
(* C15: hourly buckets and peak hours.                                     *)

Stamped(t) == "timestamp" \in DOMAIN t

\* the position of the first record of the list that falls in the hour
FirstOccurrence(ts, hour) ==
  CHOOSE i \in DOMAIN ts :
    /\ Stamped(ts[i]) /\ ts[i].timestamp % 24 = hour
    /\ \A j \in 1..(i - 1) : ~(Stamped(ts[j]) /\ ts[j].timestamp % 24 = hour)

\* C15: on a non-empty sequence _analyze_temporal_patterns skips the records
\* without a timestamp, maps each hour 0..23 that occurs to the number of
\* timestamped records in that hour, and returns as peak_hours at most 3
\* (hour, count) pairs, counts non-increasing, no omitted hour with a larger count
\* than a returned one, and hours of equal count in the order in which they
\* first occurred in the input.
C15_HourlyBucketsAndPeakHours ==
  LET out == result.out.value
      items == out.hourly_distribution
      peak == out.peak_hours
      hours == {threats[i].timestamp % 24 : i \in {j \in DOMAIN threats : Stamped(threats[j])}}
      InHour(h) == Cardinality({i \in DOMAIN threats :
                                  Stamped(threats[i]) /\ threats[i].timestamp % 24 = h})
      returned == {peak[k][1] : k \in DOMAIN peak}
  IN  (result.fn = "temporal_patterns" /\ threats # <<>>) =>
        /\ {items[k][1] : k \in DOMAIN items} = hours
        /\ hours \subseteq 0..23
        /\ Len(items) = Cardinality(hours)
        /\ \A k \in DOMAIN items : items[k][2] = InHour(items[k][1])
        /\ Len(peak) <= 3
        /\ Len(peak) = Cardinality(returned)
        /\ \A k \in DOMAIN peak : peak[k][1] \in hours /\ peak[k][2] = InHour(peak[k][1])
        /\ \A k \in 1..(Len(peak) - 1) : peak[k][2] >= peak[k + 1][2]
        /\ \A h \in hours \ returned :
             /\ Len(peak) = 3
             /\ \A k \in DOMAIN peak : InHour(h) <= peak[k][2]
        /\ \A k \in 1..(Len(peak) - 1) :
             peak[k][2] = peak[k + 1][2] =>
               FirstOccurrence(threats, peak[k][1]) < FirstOccurrence(threats, peak[k + 1][1])

\* four hours occur: the hour that occurs twice comes first although it occurred
\* last, the two hours that occurred first follow in their order of occurrence,
\* and the third hour of count one is omitted
C15_Witness ==
  /\ result.fn = "temporal_patterns"
  /\ Len(threats) = 5
  /\ \A i \in 1..5 : Stamped(threats[i])
  /\ [i \in 1..5 |-> threats[i].timestamp % 24] = <<23, 19, 17, 21, 21>>
  /\ threats[4].timestamp # threats[5].timestamp
  /\ Len(result.out.value.hourly_distribution) = 4
  /\ result.out.value.peak_hours = <<<<21, 2>>, <<23, 1>>, <<19, 1>>>>

----------------------------------------------------------------------------
(* C16: threat totals and top threats of the summary report.               *)

\* the grouped rows of a threat type among the rows the store returned
RowsOfType(threat_type) ==
  SelectSeq(store.security_threats, LAMBDA r : r.threat_type = threat_type)

CountOfType(threat_type) ==
  LET rows == RowsOfType(threat_type) IN Sum([i \in DOMAIN rows |-> rows[i].count])

ResolvedOfType(threat_type) ==
  LET rows == RowsOfType(threat_type) IN Sum([i \in DOMAIN rows |-> rows[i].resolved])

TypesOfRows == {store.security_threats[i].threat_type : i \in DOMAIN store.security_threats}

\* the position in by_type of an entry of top_threats
PositionIn(by_type, entry) == CHOOSE j \in DOMAIN by_type : by_type[j] = entry

\* C16: in the summary report by_type[t].total and by_type[t].resolved are the
\* sums of count and resolved over the grouped rows of type t, total_threats is
\* the sum of all row counts, and top_threats holds min(5, number of types)
\* entries of by_type: those of greatest total, in non-increasing order of
\* total, entries of equal total in the insertion order of by_type.
C16_TotalsAndTopThreats ==
  LET report == reports["summary"].out.value
      rows == store.security_threats
      by_type == report.threat_analysis.by_type
      top == report.threat_analysis.top_threats
      Chosen == {top[k] : k \in DOMAIN top}
  IN  Succeeded(reports["summary"]) =>
        /\ {by_type[j][1] : j \in DOMAIN by_type} = TypesOfRows
        /\ Len(by_type) = Cardinality(TypesOfRows)
        /\ \A j \in DOMAIN by_type :
             /\ by_type[j][2].total = CountOfType(by_type[j][1])
             /\ by_type[j][2].resolved = ResolvedOfType(by_type[j][1])
        /\ report.executive_summary.total_threats
             = Sum([i \in DOMAIN rows |-> rows[i].count])
        /\ Len(top) = Min(5, Cardinality(TypesOfRows))
        /\ Cardinality(Chosen) = Len(top)
        /\ \A k \in DOMAIN top : \E j \in DOMAIN by_type : by_type[j] = top[k]
        /\ \A k \in DOMAIN top, j \in DOMAIN by_type :
             by_type[j] \notin Chosen => by_type[j][2].total <= top[k][2].total
        /\ \A k \in 1..(Len(top) - 1) :
             \/ top[k][2].total > top[k + 1][2].total
             \/ /\ top[k][2].total = top[k + 1][2].total
                /\ PositionIn(by_type, top[k]) < PositionIn(by_type, top[k + 1])

\* six types: the first, whose two rows add up to 21, leads; the entries of equal
\* total follow in insertion order and one of them is left out
C16_Witness ==
  LET report == reports["summary"].out.value
      by_type == report.threat_analysis.by_type
      top == report.threat_analysis.top_threats
  IN  /\ Succeeded(reports["summary"])
      /\ Len(by_type) = 6
      /\ Len(top) = 5
      /\ Len(store.security_threats) = 7
      /\ top[1][1] = TypeNames[1] /\ top[1][2].total = 21
      /\ top[2][2].total = 2 /\ top[3][2].total = 2
      /\ top[5][2].total = 1
      /\ \E j \in DOMAIN by_type : by_type[j][2].total = 1 /\ by_type[j] # top[5]

----------------------------------------------------------------------------
(* C17: the threat trend of the executive report.                          *)

\* the number of threats of the rows the store returned
ThreatsInStore ==
  Sum([i \in DOMAIN store.security_threats |-> store.security_threats[i].count])

\* C17: the executive report's threat_trend is "Increasing" exactly when
\* total_threats > 50, "Stable" exactly when 20 < total_threats <= 50, and
\* "Decreasing" otherwise (50 is Stable, 20 is Decreasing).
C17_ThreatTrendThresholds ==
  LET trend == reports["executive"].out.value.key_metrics.threat_trend
  IN  Succeeded(reports["executive"]) =>
        /\ trend \in {"Increasing", "Stable", "Decreasing"}
        /\ trend = "Increasing" <=> ThreatsInStore >= 51
        /\ trend = "Stable" <=> (21 <= ThreatsInStore /\ ThreatsInStore <= 50)
        /\ trend = "Decreasing" <=> ThreatsInStore <= 20

\* an executive report over exactly 50 threats is Stable
C17_Witness ==
  /\ Succeeded(reports["executive"])
  /\ ThreatsInStore = 50
  /\ reports["executive"].out.value.key_metrics.threat_trend = "Stable"

----------------------------------------------------------------------------
(* C18: the risk level of the executive report grades the score it shows.  *)

\* C18: in every executive report current_risk_level is "Low" when
\* key_metrics.security_posture_score >= 80, "Medium" when 60 <= score < 80,
\* "High" when 40 <= score < 60 and "Critical" when score < 40.
C18_RiskLevelGradesExposedScore ==
  LET report == reports["executive"].out.value
      score == report.key_metrics.security_posture_score
      level == report.risk_assessment.current_risk_level
  IN  Succeeded(reports["executive"]) =>
        /\ score >= 80 => level = "Low"
        /\ (60 <= score /\ score < 80) => level = "Medium"
        /\ (40 <= score /\ score < 60) => level = "High"
        /\ score < 40 => level = "Critical"

\* an executive report whose score is below 80 only because two of five models
\* are inactive: its risk level is Medium
C18_Witness ==
  LET report == reports["executive"].out.value
  IN  /\ Succeeded(reports["executive"])
      /\ store.ai_models = [total_models |-> 5, active_models |-> 3]
      /\ report.key_metrics.security_posture_score \in 72..79
      /\ report.risk_assessment.current_risk_level = "Medium"

----------------------------------------------------------------------------
(* C19: the critical issues of the executive report.                       *)

LowResolutionIssue == <<"Low threat resolution rate">>

HighVolumeIssue == <<"High threat volume">>

CriticalIssue(threat_type) == <<"Critical", threat_type, "threats detected">>

\* whether the store returned a row of critical severity for the type
HasCriticalRow(threat_type) ==
  \E i \in DOMAIN store.security_threats :
    /\ store.security_threats[i].threat_type = threat_type
    /\ store.security_threats[i].severity = "critical"

\* the types of the summary's top_threats that have critical threats, in order
CriticalTopTypes(top) ==
  LET critical == SelectSeq(top, LAMBDA item : HasCriticalRow(item[1]))
  IN  [k \in DOMAIN critical |-> critical[k][1]]

\* C19: critical_issues contains "Low threat resolution rate" exactly when
\* resolution_rate_percent < 50, "High threat volume" exactly when
\* total_threats > 100, and one "Critical <type> threats detected" for exactly the
\* top_threats entries whose by_severity has the key "critical"; it contains
\* nothing else, and the entries appear in that order.
C19_CriticalIssuesExactly ==
  LET summary == reports["summary"].out.value
      issues == reports["executive"].out.value.risk_assessment.critical_issues
      low == summary.executive_summary.resolution_rate_percent < 50 * 100
      high == ThreatsInStore > 100
      types == CriticalTopTypes(summary.threat_analysis.top_threats)
      lead == (IF low THEN 1 ELSE 0) + (IF high THEN 1 ELSE 0)
  IN  (Succeeded(reports["summary"]) /\ Succeeded(reports["executive"])) =>
        /\ Len(issues) = lead + Len(types)
        /\ low => issues[1] = LowResolutionIssue
        /\ high => issues[lead] = HighVolumeIssue
        /\ \A k \in DOMAIN types : issues[lead + k] = CriticalIssue(types[k])
        /\ \A k \in DOMAIN summary.threat_analysis.top_threats :
             LET item == summary.threat_analysis.top_threats[k]
             IN  HasCriticalRow(item[1]) <=> "critical" \in DOMAIN item[2].by_severity

\* all three kinds of issue, in order, and a sixth type with critical threats that
\* is not among the top threats and is not reported
C19_Witness ==
  LET summary == reports["summary"].out.value
      issues == reports["executive"].out.value.risk_assessment.critical_issues
      top == summary.threat_analysis.top_threats
  IN  /\ Succeeded(reports["summary"])
      /\ Succeeded(reports["executive"])
      /\ Len(issues) >= 4
      /\ issues[1] = LowResolutionIssue
      /\ issues[2] = HighVolumeIssue
      /\ issues[3] = CriticalIssue(TypeNames[1])
      /\ \E k \in 1..6 :
           /\ HasCriticalRow(TypeNames[k])
           /\ \A j \in DOMAIN top : top[j][1] # TypeNames[k]
           /\ \A j \in DOMAIN issues : issues[j] # CriticalIssue(TypeNames[k])

----------------------------------------------------------------------------
(* C20: the recommendations of the summary report.                         *)

VarietyAdvice ==
  <<"High variety of threat types detected - consider implementing comprehensive threat monitoring">>

LowResolutionAdvice(threat_type) ==
  <<"Low resolution rate for", threat_type, "threats - review response procedures">>

ModelAdvice ==
  <<"Consider activating more models or removing inactive ones to improve security posture">>

EventAdvice ==
  <<"High security event volume - consider implementing automated filtering">>

\* the row with which the type first appears among the rows the store returned
FirstRowOfType(threat_type) ==
  CHOOSE i \in DOMAIN store.security_threats :
    /\ store.security_threats[i].threat_type = threat_type
    /\ \A j \in 1..(i - 1) : store.security_threats[j].threat_type # threat_type

\* the types resolved to less than a half, in the order of by_type
LowResolutionTypes(by_type) ==
  LET low == SelectSeq(by_type, LAMBDA item :
                 2 * ResolvedOfType(item[1]) < Max(CountOfType(item[1]), 1))
  IN  [k \in DOMAIN low |-> low[k][1]]

\* C20: the recommendations of the summary report are, in this order, the variety
\* rule (more than 5 threat types), one low-resolution entry for each threat type
\* with resolved / max(total, 1) < 0.5 in by_type insertion order, the model rule
\* (active_models < 0.8 * total_models) and the event-volume rule
\* (security_events > 1000); each entry is present exactly when its guard holds.
C20_SummaryRecommendationsInRuleOrder ==
  LET summary == reports["summary"].out.value
      by_type == summary.threat_analysis.by_type
      advice == summary.recommendations
      variety == Cardinality(TypesOfRows) >= 6
      low == LowResolutionTypes(by_type)
      model == 10 * store.ai_models.active_models < 8 * store.ai_models.total_models
      events == store.security_events >= 1001
      v == IF variety THEN 1 ELSE 0
      m == IF model THEN 1 ELSE 0
      e == IF events THEN 1 ELSE 0
  IN  Succeeded(reports["summary"]) =>
        /\ \A i, j \in DOMAIN by_type :
             i < j => FirstRowOfType(by_type[i][1]) < FirstRowOfType(by_type[j][1])
        /\ Len(advice) = v + Len(low) + m + e
        /\ variety => advice[1] = VarietyAdvice
        /\ \A k \in DOMAIN low : advice[v + k] = LowResolutionAdvice(low[k])
        /\ model => advice[v + Len(low) + 1] = ModelAdvice
        /\ events => advice[v + Len(low) + m + 1] = EventAdvice

\* every rule fires: six types, two of them unresolved, three of five models
\* active and 1001 security events
C20_Witness ==
  LET advice == reports["summary"].out.value.recommendations
  IN  /\ Succeeded(reports["summary"])
      /\ Len(advice) = 5
      /\ advice[1] = VarietyAdvice
      /\ advice[2] = LowResolutionAdvice(TypeNames[2])
      /\ advice[3] = LowResolutionAdvice(TypeNames[5])
      /\ advice[4] = ModelAdvice
      /\ advice[5] = EventAdvice

----------------------------------------------------------------------------
(* C21: the vulnerability assessment of a model.                           *)

\* the risk lists of the four recognized model types
KnownRisks ==
  [tensorflow |-> <<"adversarial_attacks", "model_extraction">>,
   pytorch |-> <<"gradient_attacks", "inference_attacks">>,
   onnx |-> <<"format_vulnerabilities", "serialization_attacks">>,
   huggingface |-> <<"prompt_injection", "data_extraction">>]

\* a threat whose timestamp lies within the 7 days (168 hours) before the clock
WithinLastSevenDays(t, clock) ==
  /\ "timestamp" \in DOMAIN t
  /\ t.timestamp <= clock
  /\ clock - t.timestamp <= 7 * 24

\* C21: vulnerability_assessment(model, threats) returns the fixed risk list of
\* model.type, or <<"unknown_risks">> for an unrecognized type, threat_exposure =
\* the number of threats, the number of threats of severity "critical", and
\* recent_attacks = the number of threats whose timestamp lies within the last 7
\* days before now: a threat 7 days and 12 hours old, or without a timestamp, is
\* not counted.
C21_VulnerabilityAssessment ==
  LET out == result.out.value
  IN  result.fn = "vulnerability_assessment" =>
        /\ out.model_type_risks
             = IF result.model_type \in DOMAIN KnownRisks
               THEN KnownRisks[result.model_type] ELSE <<"unknown_risks">>
        /\ out.threat_exposure = Len(threats)
        /\ out.critical_vulnerabilities = WithSeverityCount(threats, "critical")
        /\ out.recent_attacks
             = Cardinality({i \in DOMAIN threats : WithinLastSevenDays(threats[i], now)})

----------------------------------------------------------------------------
(* C22: the components are initialized before requests are served.         *)

\* the component a request handler calls
ComponentOf(endpoint) ==
  CASE endpoint \in {"get_threat_analytics", "get_model_analytics", "analyze_model"}
         -> "threat_analyzer"
    [] endpoint \in {"get_system_metrics", "get_security_metrics"} -> "metrics_collector"
    [] OTHER -> "data_processor"

\* C22: once startup has completed successfully, whenever a request handler calls
\* threat_analyzer, metrics_collector or data_processor, that component's pg_pool
\* and mongo_db are non-null.
C22_HandlesInitializedWhenServing ==
  [][last' # last =>
       /\ handles[ComponentOf(last'.endpoint)].pg_pool # None
       /\ handles[ComponentOf(last'.endpoint)].mongo_db # None]_vars

----------------------------------------------------------------------------
(* C23: the PostgreSQL pool under concurrent get_db_connection calls.      *)

\* C23: for any number of concurrent get_db_connection calls the pool is created
\* at most once, and every call that returns yields the same pool object.
C23_PoolIsSingleton ==
  /\ store.pools <= 1
  /\ \A c1, c2 \in Callers :
       (/\ inflight[c1].fn = "get_db_connection" /\ inflight[c1].pc = "returned"
        /\ inflight[c2].fn = "get_db_connection" /\ inflight[c2].pc = "returned")
       => inflight[c1].out = inflight[c2].out

----------------------------------------------------------------------------
(* C24: a store handle is handed out only after a successful ping.         *)

\* C24: in any sequence or interleaving of calls of get_mongo_connection (and
\* likewise get_redis_connection), no call returns a handle before some ping on
\* that client has succeeded.
C24_HandleOnlyAfterPing ==
  [][\A caller \in Callers :
       (/\ inflight'[caller] # inflight[caller]
        /\ inflight'[caller].pc = "returned"
        /\ inflight'[caller].fn \in {"get_mongo_connection", "get_redis_connection"})
       => HandleOf(inflight'[caller].fn) \in store'.pinged]_vars

----------------------------------------------------------------------------
(* C25: the executive report of an organization without threats.           *)

\* the posture score that deducts only for inactive models
ScoreWithoutResolutionPenalty(model_security) ==
  LET m == Max(model_security.total_models, 1)
  IN  (100 * m - (m - model_security.active_models) * 20) \div m

\* C25: for an organization with zero threats in the report window, the
\* executive report's critical_issues is the empty list, and the absence of
\* threats alone causes no resolution-rate penalty in security_posture_score.
C25_NoThreatsNoCriticalIssue ==
  (Succeeded(reports["executive"]) /\ ThreatsInStore = 0) =>
    LET report == reports["executive"].out.value
    IN  /\ report.risk_assessment.critical_issues = <<>>
        /\ report.key_metrics.security_posture_score
             = ScoreWithoutResolutionPenalty(store.ai_models)

====
